---------------------------- MODULE Spec2Model ----------------------------
(***************************************************************************)
(* FLogFS (src/src/flogfs.c): a log-structured file system on raw NAND.    *)
(*                                                                         *)
(* The model is a state machine over the NAND array, the flash device's    *)
(* page cache, the static flogfs_t instance, and the callers' read and     *)
(* write descriptors.  Every C function is an operator from a machine      *)
(* record m to a machine record (plus a return value); a public operation  *)
(* is one action that applies its operator.  Bind(v, F) is F(v) with v     *)
(* evaluated once: it stands for a C local that is assigned once and read  *)
(* many times.                                                             *)
(*                                                                         *)
(* The headers (flogfs_private.h, flogfs_conf_implement.h) and the flash   *)
(* driver are not part of src/.  Geometry, structure layouts and the       *)
(* driver follow spec.md sections 3, 6.1 and 6.3, and the way flogfs.c     *)
(* uses them; the geometry is scaled down.                                 *)
(***************************************************************************)
EXTENDS Integers, Sequences, FiniteSets, TLC

(***************************************************************************)
(* Build-time configuration (spec.md 6.3), scaled down.                    *)
(***************************************************************************)
FS_NUM_BLOCKS == 4

FS_PAGES_PER_BLOCK == 2

FS_SECTORS_PER_PAGE == 4

FS_SECTOR_SIZE == 3

FS_SECTORS_PER_BLOCK == FS_SECTORS_PER_PAGE * FS_PAGES_PER_BLOCK

FLOG_FILE_TAIL_SECTOR == FS_SECTORS_PER_PAGE - 2

FLOG_FILE_INVALIDATION_SECTOR == FS_SECTORS_PER_PAGE - 1

FLOG_INODE_TAIL_SECTOR == FS_SECTORS_PER_PAGE - 2

FLOG_INODE_INVALIDATION_SECTOR == FS_SECTORS_PER_PAGE - 1

\* sizeof(flog_file_sector0_header_t) and sizeof(flog_file_tail_sector_header_t),
\* in the model's byte unit
SIZEOF_SECTOR0_HEADER == 1

SIZEOF_TAIL_HEADER == 2

FLOG_BLOCK_TYPE_INODE == 1

FLOG_BLOCK_TYPE_FILE == 2

FLOG_BLOCK_TYPE_UNALLOCATED == 255

\* All-ones sentinels: erased flash reads as all-ones.  The 32-bit words
\* of the program are 30 bits wide here (the checker's integers are 32-bit
\* signed): all-ones is 2^30 - 1 and unsigned arithmetic wraps at 2^30.
ONES32 == 1073741823

ONES16 == 65535

ONES8 == 255

FLOG_BLOCK_IDX_INVALID == ONES16

FLOG_BLOCK_AGE_INVALID == ONES32

FLOG_FILE_ID_INVALID == ONES32

FLOG_TIMESTAMP_INVALID == ONES32

FLOG_SECTOR_NBYTES_INVALID == ONES16

\* uint32_t arithmetic of flogfs_write's byte counters
UINT32_MOD == ONES32 + 1

Blocks == 0 .. (FS_NUM_BLOCKS - 1)

Pages == 0 .. (FS_PAGES_PER_BLOCK - 1)

Sectors == 0 .. (FS_SECTORS_PER_BLOCK - 1)

PageSlots == 0 .. (FS_SECTORS_PER_PAGE - 1)

ByteIdx == 0 .. (FS_SECTOR_SIZE - 1)

\* A byte whose value the program does not determine: read from beyond a
\* sector, or from beyond the caller's buffer.
JUNK == 256

\* The filename bytes of an erased sector; equal to no filename.
NONAME == "~"

\* The result of programming one filename over a different one.
GARBLED == "#"

NULL == "null"

\* The capacity of the preallocation list.
FS_PREALLOCATE_SIZE == 2

MIN(x, y) == IF x < y THEN x ELSE y

Bind(v, F(_)) == CHOOSE res \in {F(y) : y \in {v}} : TRUE

(***************************************************************************)
(* NAND contents.  A sector holds four header words (a..d, in the order of *)
(* the structure that is stored there), a filename (allocation records),   *)
(* payload bytes by byte offset, and its spare bytes.  Layouts by word:    *)
(*   sector 0 of a block      a = age, b = file_id (FILE) / timestamp      *)
(*   tail sector              a = next_block, b = next_age, c = timestamp, *)
(*                            d = bytes_in_block                           *)
(*   invalidation sector      a = timestamp, b = next_age                  *)
(*   inode allocation record  a = file_id, b = first_block,                *)
(*                            c = first_block_age, d = timestamp, name     *)
(*   inode invalidation rec.  a = timestamp, b = last_block                *)
(*   spare                    type_id, nbytes (file), idx (inode_index)    *)
(***************************************************************************)
ErasedSector ==
    [a |-> ONES32, b |-> ONES32, c |-> ONES32, d |-> ONES32, name |-> NONAME,
     data |-> [i \in ByteIdx |-> ONES8],
     nbytes |-> ONES16, type_id |-> ONES8, idx |-> ONES16]

ErasedPage == [i \in PageSlots |-> ErasedSector]

ErasedBlock == [s \in Sectors |-> ErasedSector]

RECURSIVE BitAnd(_, _)
BitAnd(x, y) ==
    IF x = 0 \/ y = 0 THEN 0
    ELSE (x % 2) * (y % 2) + 2 * BitAnd(x \div 2, y \div 2)

\* Programming clears bits only: the cell becomes old AND new.
ProgCell(old, new, ones) ==
    IF old = new THEN old
    ELSE IF old = ones THEN new
    ELSE IF new = ones THEN old
    ELSE IF old = JUNK \/ new = JUNK THEN JUNK
    ELSE BitAnd(old, new)

ProgName(old, new) ==
    IF old = new THEN old
    ELSE IF old = NONAME THEN new
    ELSE IF new = NONAME THEN old
    ELSE GARBLED

\* Program the image `patch` (all-ones where nothing is written) over `old`.
ProgSector(old, patch) ==
    [a |-> ProgCell(old.a, patch.a, ONES32),
     b |-> ProgCell(old.b, patch.b, ONES32),
     c |-> ProgCell(old.c, patch.c, ONES32),
     d |-> ProgCell(old.d, patch.d, ONES32),
     name |-> ProgName(old.name, patch.name),
     data |-> [i \in ByteIdx |-> ProgCell(old.data[i], patch.data[i], ONES8)],
     nbytes |-> ProgCell(old.nbytes, patch.nbytes, ONES16),
     type_id |-> ProgCell(old.type_id, patch.type_id, ONES8),
     idx |-> ProgCell(old.idx, patch.idx, ONES16)]

\* A block index field is 16 bits wide.
Blk(x) == x % (ONES16 + 1)

(***************************************************************************)
(* The flash driver (spec.md 6.1).  dev is the device: the page it has     *)
(* loaded (b, p), the image of that page (buf) and the staged program      *)
(* (st).  m.drv.kind is the driver's kind: "staged" programs NAND at       *)
(* flash_commit and loses what is staged when another page is loaded;      *)
(* "through" programs NAND at every flash_write_*.  m.drv.bad is the set   *)
(* of blocks that carry the bad-block marker.  m.fuel counts the           *)
(* programming calls still served before power is lost (-1: no loss).      *)
(***************************************************************************)
Powered(m) == m.fuel # 0 /\ ~m.h.hung

Burn(m) == [m EXCEPT !.fuel = IF @ > 0 THEN @ - 1 ELSE @]

OnDevice(m) == m.dev.b \in Blocks /\ m.dev.p \in Pages

flash_open_page(mm, block, page) ==
    Bind(mm, LAMBDA m :
      [m EXCEPT !.dev =
          [b |-> block, p |-> page,
           buf |-> IF block \in Blocks /\ page \in Pages
                   THEN [i \in PageSlots |->
                            m.nand[block][page * FS_SECTORS_PER_PAGE + i]]
                   ELSE ErasedPage,
           st |-> ErasedPage]])

flash_read_sector(m, sector) == m.dev.buf[sector % FS_SECTORS_PER_PAGE]

flash_read_spare(m, sector) == m.dev.buf[sector % FS_SECTORS_PER_PAGE]

flash_write_sector(mm, sector, image) ==
    Bind(mm, LAMBDA m : Bind(image, LAMBDA patch :
      IF ~Powered(m) THEN m
      ELSE
        LET i == sector % FS_SECTORS_PER_PAGE
        IN IF m.drv.kind = "through" /\ OnDevice(m)
           THEN [Burn(m) EXCEPT
                   !.dev.buf[i] = ProgSector(@, patch),
                   !.dev.st[i] = ProgSector(@, patch),
                   !.nand[m.dev.b][m.dev.p * FS_SECTORS_PER_PAGE + i] =
                       ProgSector(@, patch)]
           ELSE [Burn(m) EXCEPT !.dev.buf[i] = ProgSector(@, patch),
                                !.dev.st[i] = ProgSector(@, patch)]))

flash_write_spare(m, sector, image) == flash_write_sector(m, sector, image)

flash_commit(mm) ==
    Bind(mm, LAMBDA m :
      IF ~Powered(m) THEN m
      ELSE IF m.drv.kind = "staged" /\ OnDevice(m)
      THEN [Burn(m) EXCEPT
              !.dev.st = ErasedPage,
              !.nand[m.dev.b] =
                 [s \in Sectors |->
                    IF s \div FS_SECTORS_PER_PAGE = m.dev.p
                    THEN ProgSector(@[s], m.dev.st[s % FS_SECTORS_PER_PAGE])
                    ELSE @[s]]]
      ELSE [Burn(m) EXCEPT !.dev.st = ErasedPage])

\* The marker of the block of the page that is loaded.
flash_block_is_bad(m) == m.dev.b \in m.drv.bad

flash_erase_block(mm, block) ==
    Bind(mm, LAMBDA m :
      IF ~Powered(m) THEN m
      ELSE IF block \in Blocks
           THEN [Burn(m) EXCEPT !.nand[block] = ErasedBlock]
           ELSE Burn(m))

(***************************************************************************)
(* Flash cache shim                                                        *)
(***************************************************************************)
flog_open_page(mm, block, page) ==
    Bind(mm, LAMBDA m :
      IF m.fs.cache.page_open
         /\ m.fs.cache.current_open_block = block
         /\ m.fs.cache.current_open_page = page
      THEN m
      ELSE [flash_open_page(m, block, page) EXCEPT
              !.fs.cache = [page_open |-> TRUE,
                            current_open_block |-> block,
                            current_open_page |-> page]])

flog_open_sector(m, block, sector) ==
    flog_open_page(m, block, sector \div FS_SECTORS_PER_PAGE)

(***************************************************************************)
(* History kept beside the program state: the timestamps and sector-0      *)
(* ages as they are programmed.                                            *)
(*   ts_last  the largest timestamp programmed so far (-1: none)           *)
(*   ts_mono  every timestamp programmed exceeded all earlier ones         *)
(*   age_at   per block, the age last programmed in its sector-0 header    *)
(*   age_mono every such age exceeded the block's previous one             *)
(*   raw      flogfs_read copied bytes out of a sector whose spare nbytes  *)
(*            is unwritten                                                 *)
(*   hung     an operation did not return                                  *)
(*   relock   flog_lock_allocate was called with allocate_lock held        *)
(***************************************************************************)
NoteTimestamp(mm, ts) ==
    Bind(mm, LAMBDA m :
      IF ~Powered(m) THEN m
      ELSE [m EXCEPT !.h.ts_mono = @ /\ ts > m.h.ts_last,
                     !.h.ts_last = IF ts > @ THEN ts ELSE @])

NoteAge(mm, block, age) ==
    Bind(mm, LAMBDA m :
      IF ~Powered(m) \/ block \notin Blocks THEN m
      ELSE [m EXCEPT !.h.age_mono = @ /\ age > m.h.age_at[block],
                     !.h.age_at[block] = age])

Hang(m) == [m EXCEPT !.h.hung = TRUE]

(***************************************************************************)
(* Sector order                                                            *)
(***************************************************************************)
\* A successor that counts through the sectors of the block.
IncrementSectorPlain(sector) == sector + 1

flog_increment_sector(sector) ==
    IF sector = FLOG_FILE_TAIL_SECTOR - 1 THEN FS_SECTORS_PER_PAGE
    ELSE IF sector = FS_PAGES_PER_BLOCK * FS_SECTORS_PER_PAGE - 1
         THEN FLOG_FILE_TAIL_SECTOR
    ELSE sector + 1

(***************************************************************************)
(* Locks.  lock is the FS lock, flash_lock the driver's; an operation      *)
(* that finds a lock held waits for it.  The allocation lock is taken      *)
(* while it may already be held; its depth is counted.                     *)
(***************************************************************************)
flog_lock_fs(m) == [m EXCEPT !.fs.lock = TRUE]

flog_unlock_fs(m) == [m EXCEPT !.fs.lock = FALSE]

flash_lock(m) == [m EXCEPT !.fs.flash_lock = TRUE]

flash_unlock(m) == [m EXCEPT !.fs.flash_lock = FALSE]

\* The platform's fs_lock is modelled as a depth; a call made while the
\* depth is not zero is noted in the history.
flog_lock_allocate(m) ==
    [m EXCEPT !.fs.allocate_lock = @ + 1,
              !.h.relock = @ \/ m.fs.allocate_lock > 0]

flog_unlock_allocate(m) ==
    [m EXCEPT !.fs.allocate_lock = IF @ > 0 THEN @ - 1 ELSE 0]

(***************************************************************************)
(* Block allocator                                                         *)
(***************************************************************************)
\* block.age is left unset when no block is found; 0 stands for that value.
flog_allocate_block_iterate(mm) ==
    Bind(mm, LAMBDA m :
    Bind(flog_open_sector(m, m.fs.allocate_head, 0), LAMBDA m1 :
      LET head == m.fs.allocate_head
          s0   == flash_read_sector(m1, 0)
          nxt  == (head + 1) % FS_NUM_BLOCKS
      IN IF s0.a = FLOG_BLOCK_AGE_INVALID
         THEN [m |-> [m1 EXCEPT !.fs.allocate_head = nxt],
               block |-> head, age |-> 0]
         ELSE
           Bind(flog_open_sector(m1, head, FLOG_FILE_INVALIDATION_SECTOR),
                LAMBDA m2 :
             IF flash_read_sector(m2, FLOG_FILE_INVALIDATION_SECTOR).a
                  # FLOG_TIMESTAMP_INVALID
             THEN [m |-> [m2 EXCEPT !.fs.allocate_head = nxt],
                   block |-> head, age |-> s0.a]
             ELSE [m |-> [m2 EXCEPT !.fs.allocate_head = nxt],
                   block |-> FLOG_BLOCK_IDX_INVALID, age |-> 0])))

\* The entries of the preallocation list, blocks[0 .. n-1], are the
\* sequence fs.prealloc; index i of the code is position i + 1.
PushAt(list, i, e) ==
    LET shifted == SubSeq(list, 1, i) \o <<e>> \o SubSeq(list, i + 1, Len(list))
    IN SubSeq(shifted, 1, MIN(Len(shifted), FS_PREALLOCATE_SIZE))

flog_prealloc_push(mm, block, age) ==
    Bind(mm, LAMBDA m :
      LET list == m.fs.prealloc
          n    == Len(list)
          e    == [block |-> block, age |-> age]
          hits == {i \in 1 .. n - 1 : age <= list[i + 1].age}
          i    == CHOOSE x \in hits : \A y \in hits : y <= x
      IN IF n = 0
         THEN [m EXCEPT !.fs.prealloc = <<e>>,
                        !.fs.age_sum = (@ + age) % UINT32_MOD]
         ELSE IF n = FS_PREALLOCATE_SIZE /\ list[n].age < age THEN m
         ELSE IF hits = {} THEN m
         ELSE [m EXCEPT
                 !.fs.prealloc = PushAt(list, i, e),
                 !.fs.age_sum =
                    (@ - (IF n = FS_PREALLOCATE_SIZE
                          THEN list[FS_PREALLOCATE_SIZE].age ELSE 0)
                       + age + UINT32_MOD) % UINT32_MOD])

flog_prealloc_pop(mm) ==
    Bind(mm, LAMBDA m :
      IF Len(m.fs.prealloc) = 0
      THEN [m |-> m, block |-> FLOG_BLOCK_IDX_INVALID, age |-> 0]
      ELSE [m |-> [m EXCEPT !.fs.prealloc = Tail(@)],
            block |-> Head(m.fs.prealloc).block,
            age |-> Head(m.fs.prealloc).age])

RECURSIVE AllocateScan(_, _)
AllocateScan(mm, i) ==
    IF i = 0 THEN [m |-> mm, block |-> FLOG_BLOCK_IDX_INVALID, age |-> 0]
    ELSE Bind(flog_allocate_block_iterate(mm), LAMBDA al :
           IF al.block # FLOG_BLOCK_IDX_INVALID THEN al
           ELSE AllocateScan(al.m, i - 1))

flog_allocate_block(mm) ==
    Bind(mm, LAMBDA m :
      IF m.fs.num_free_blocks = 0
      THEN [m |-> m, block |-> FLOG_BLOCK_IDX_INVALID, age |-> 0]
      ELSE Bind(flog_prealloc_pop(m), LAMBDA p :
             IF p.block # FLOG_BLOCK_IDX_INVALID THEN p
             ELSE AllocateScan(p.m, FS_NUM_BLOCKS)))

(***************************************************************************)
(* File writer: sector commit and flush                                    *)
(***************************************************************************)
\* The byte at index i (from 0) of the caller's buffer `src`; past its end
\* (or with src the null pointer, <<>>) the value is not determined.
SrcByte(src, i) == IF i + 1 <= Len(src) THEN src[i + 1] ELSE JUNK

BlankBuffer == [i \in ByteIdx |-> ONES8]

\* The image programmed by flash_write_sector(file->sector_buffer, s, 0, offset)
BufferPatch(f, hdr) ==
    [hdr EXCEPT !.data = [i \in ByteIdx |->
                             IF i < f.offset THEN f.buf[i] ELSE ONES8]]

\* The image programmed by flash_write_sector(data, s, offset, n)
DataPatch(f, data, n) ==
    [ErasedSector EXCEPT !.data =
        [i \in ByteIdx |->
            IF i >= f.offset /\ i < f.offset + n
            THEN SrcByte(data, i - f.offset) ELSE ONES8]]

RECURSIVE flog_commit_file_sector(_, _, _, _)
RECURSIVE flog_flush_dirty_block(_)

flog_flush_write(m, file) == flog_commit_file_sector(m, file, <<>>, 0)

\* The tail sector: a successor block is allocated and the block sealed.
CommitTail(mm, file, data, n) ==
    Bind(flog_flush_dirty_block(flog_lock_allocate(mm)), LAMBDA mA :
    IF mA.h.hung THEN [m |-> mA, ok |-> FALSE]
    ELSE
    Bind(flog_allocate_block(mA), LAMBDA al :
    IF al.block = FLOG_BLOCK_IDX_INVALID
    THEN [m |-> flog_unlock_allocate(al.m), ok |-> FALSE]
    ELSE
      LET f   == al.m.w[file]
          ts  == al.m.fs.t + 1
          bib == f.bytes_in_block + (FS_SECTOR_SIZE - SIZEOF_TAIL_HEADER)
          hdr == [ErasedSector EXCEPT !.a = al.block, !.b = al.age + 1,
                                      !.c = ts, !.d = bib]
          m1  == flog_unlock_allocate(
                   [al.m EXCEPT !.fs.dirty_block =
                                   [block |-> al.block, file |-> file],
                                !.fs.t = ts])
          m2  == flog_open_sector(m1, f.block, FLOG_FILE_TAIL_SECTOR)
          m3  == flash_write_sector(NoteTimestamp(m2, ts),
                                    FLOG_FILE_TAIL_SECTOR, BufferPatch(f, hdr))
          m4  == flash_write_sector(m3, FLOG_FILE_TAIL_SECTOR,
                    DataPatch(f, data, FS_SECTOR_SIZE - f.offset))
          m5  == flash_write_spare(m4, FLOG_FILE_TAIL_SECTOR,
                    [ErasedSector EXCEPT
                       !.nbytes = FS_SECTOR_SIZE - SIZEOF_TAIL_HEADER])
      IN [m |-> [flash_commit(m5) EXCEPT !.w[file] =
                   [f EXCEPT !.block = al.block,
                             !.block_age = al.age,
                             !.sector = 0,
                             !.sector_remaining_bytes =
                                 FS_SECTOR_SIZE - SIZEOF_SECTOR0_HEADER,
                             !.bytes_in_block = 0,
                             !.offset = SIZEOF_SECTOR0_HEADER,
                             !.write_head = @ + n,
                             !.buf = BlankBuffer]],
          ok |-> TRUE]))

\* Any other sector: program it and step to the next one.
CommitData(mm, file, data, n) ==
    Bind(mm, LAMBDA m :
      LET f   == m.w[file]
          hdr == IF f.sector = 0
                 THEN [ErasedSector EXCEPT !.a = f.block_age, !.b = f.id]
                 ELSE ErasedSector
          m1  == flog_unlock_allocate(flog_lock_allocate(
                   IF m.fs.dirty_block.file = file
                   THEN [m EXCEPT !.fs.dirty_block.block =
                                     FLOG_BLOCK_IDX_INVALID]
                   ELSE m))
          m2  == flog_open_sector(m1, f.block, f.sector)
          m3  == IF f.offset # 0
                 THEN flash_write_sector(
                        IF f.sector = 0 THEN NoteAge(m2, f.block, f.block_age)
                        ELSE m2,
                        f.sector, BufferPatch(f, hdr))
                 ELSE m2
          m4  == flash_write_sector(m3, f.sector, DataPatch(f, data, n))
          m5  == flash_write_spare(m4, f.sector,
                    [ErasedSector EXCEPT !.type_id = FLOG_BLOCK_TYPE_FILE,
                                         !.nbytes = f.offset + n])
          ns  == flog_increment_sector(f.sector)
          no  == IF ns = FLOG_FILE_TAIL_SECTOR THEN SIZEOF_TAIL_HEADER ELSE 0
      IN [m |-> [flash_commit(m5) EXCEPT !.w[file] =
                   [f EXCEPT !.sector = ns,
                             !.offset = no,
                             !.bytes_in_block = @ + n,
                             !.sector_remaining_bytes = FS_SECTOR_SIZE - no,
                             !.write_head = @ + n,
                             !.buf = BlankBuffer]],
          ok |-> TRUE])

\* A flush of the dirty block's owner while that owner stands on its tail
\* sector re-enters the tail case, which flushes again: the recursion never
\* ends.
flog_commit_file_sector(mm, file, data, n) ==
    Bind(mm, LAMBDA m :
      IF m.w[file].sector = FLOG_FILE_TAIL_SECTOR
      THEN IF m.fs.dirty_block.block # FLOG_BLOCK_IDX_INVALID
              /\ m.w[m.fs.dirty_block.file].sector = FLOG_FILE_TAIL_SECTOR
           THEN [m |-> Hang(m), ok |-> FALSE]
           ELSE CommitTail(m, file, data, n)
      ELSE CommitData(m, file, data, n))

flog_flush_dirty_block(mm) ==
    Bind(mm, LAMBDA m :
      IF m.fs.dirty_block.block # FLOG_BLOCK_IDX_INVALID
      THEN [flog_flush_write(m, m.fs.dirty_block.file).m EXCEPT
              !.fs.dirty_block.block = FLOG_BLOCK_IDX_INVALID]
      ELSE m)

(***************************************************************************)
(* Inode iterator and directory lookup                                     *)
(***************************************************************************)
flog_universal_get_next_block(mm, block) ==
    IF block = FLOG_BLOCK_IDX_INVALID THEN [m |-> mm, block |-> block]
    ELSE Bind(flog_open_sector(mm, block, FLOG_FILE_TAIL_SECTOR), LAMBDA m1 :
           [m |-> m1,
            block |-> Blk(flash_read_sector(m1, FLOG_FILE_TAIL_SECTOR).a)])

flog_inode_iterator_init(mm, inode0) ==
    Bind(flog_open_sector(mm, inode0, FLOG_INODE_TAIL_SECTOR), LAMBDA m1 :
    Bind(flog_open_sector(m1, inode0, 0), LAMBDA m2 :
      [m |-> m2,
       it |-> [block |-> inode0,
               next_block |->
                   Blk(flash_read_sector(m1, FLOG_INODE_TAIL_SECTOR).a),
               inode_block_idx |-> flash_read_spare(m2, 0).idx,
               inode_idx |-> 0,
               sector |-> FS_SECTORS_PER_PAGE]]))

\* `m` and `it` are values here: callers bind them.
flog_inode_iterator_next(m, it) ==
    LET s == it.sector + 2
        i == it.inode_idx + 1
    IN IF s >= FS_SECTORS_PER_BLOCK
       THEN IF it.next_block # FLOG_BLOCK_IDX_INVALID
            THEN Bind(flog_universal_get_next_block(m, it.next_block),
                      LAMBDA n :
                   [m |-> n.m,
                    it |-> [it EXCEPT !.block = it.next_block,
                                      !.next_block = n.block,
                                      !.inode_idx = i,
                                      !.sector = FS_SECTORS_PER_PAGE]])
            ELSE [m |-> m,
                  it |-> [it EXCEPT !.inode_idx = i, !.sector = s - 2 - 1]]
       ELSE [m |-> m, it |-> [it EXCEPT !.inode_idx = i, !.sector = s]]

\* An inode walk reads flash only, so a walk longer than the number of
\* entry positions has come back to a position it left: it never ends.
WalkLimit == FS_NUM_BLOCKS * FS_SECTORS_PER_BLOCK + 1

\* One pass of the loop of flog_find_file.  s: the machine, the iterator,
\* and, once the loop has ended (done), its result.
FindStep(ss, filename) ==
    Bind(ss, LAMBDA s :
      IF s.done THEN s
      ELSE
        Bind(flog_open_sector(s.m, s.it.block, s.it.sector), LAMBDA m1 :
          LET rec == flash_read_sector(m1, s.it.sector)
          IN IF rec.a = FLOG_FILE_ID_INVALID
             THEN [s EXCEPT !.m = m1, !.done = TRUE]
             ELSE IF rec.name # filename
             THEN Bind(flog_inode_iterator_next(m1, s.it), LAMBDA n :
                    [s EXCEPT !.m = n.m, !.it = n.it])
             ELSE
               Bind(flog_open_sector(m1, s.it.block, s.it.sector + 1),
                    LAMBDA m2 :
                 IF flash_read_sector(m2, s.it.sector + 1).a
                      # FLOG_TIMESTAMP_INVALID
                 THEN Bind(flog_inode_iterator_next(m2, s.it), LAMBDA n :
                        [s EXCEPT !.m = n.m, !.it = n.it])
                 ELSE [s EXCEPT !.m = m2, !.done = TRUE,
                                !.first_block = Blk(rec.b),
                                !.file_id = rec.a])))

\* The state after k passes (k >= 1).
RECURSIVE FindLoop(_, _, _)
FindLoop(s0, filename, k) ==
    IF k = 1 THEN FindStep(s0, filename)
    ELSE Bind(FindLoop(s0, filename, k \div 2), LAMBDA s1 :
           IF s1.done THEN s1 ELSE FindLoop(s1, filename, k - (k \div 2)))

\* hung: the loop has not ended after WalkLimit passes.
flog_find_file(mm, filename) ==
    Bind(mm, LAMBDA m :
    Bind(flog_inode_iterator_init(m, m.fs.inode0), LAMBDA i :
    Bind(FindLoop([m |-> i.m, it |-> i.it, done |-> FALSE,
                   first_block |-> FLOG_BLOCK_IDX_INVALID,
                   file_id |-> FLOG_FILE_ID_INVALID], filename, WalkLimit),
         LAMBDA s :
      [m |-> s.m, it |-> s.it, first_block |-> s.first_block,
       file_id |-> s.file_id, hung |-> ~s.done])))

(***************************************************************************)
(* The open lists                                                          *)
(***************************************************************************)
\* The last element of the list that starts at `x`; NULL when following
\* next pointers never reaches the end (k bounds the walk by the number of
\* descriptors).
RECURSIVE ListLast(_, _, _)
ListLast(files, x, k) ==
    IF k = 0 THEN NULL
    ELSE IF files[x].next = NULL THEN x
    ELSE ListLast(files, files[x].next, k - 1)

\* The element whose next is `file`, walking from `x` as close does:
\* NULL when the walk ends without finding one.
RECURSIVE ListPred(_, _, _, _)
ListPred(files, x, file, k) ==
    IF k = 0 \/ files[x].next = NULL THEN NULL
    ELSE IF files[x].next = file THEN x
    ELSE ListPred(files, files[x].next, file, k - 1)

(***************************************************************************)
(* File reader                                                             *)
(***************************************************************************)
flogfs_open_read(mm, file, filename) ==
    Bind(flog_find_file(flash_lock(flog_lock_fs(mm)), filename), LAMBDA fr :
    IF fr.hung THEN [m |-> Hang(fr.m), ok |-> FALSE]
    ELSE IF fr.first_block = FLOG_BLOCK_IDX_INVALID
    THEN [m |-> flog_unlock_fs(flash_unlock(fr.m)), ok |-> FALSE]
    ELSE
      Bind(flog_open_sector(fr.m, fr.first_block, 0), LAMBDA m1 :
      Bind(IF flash_read_spare(m1, 0).nbytes # 0 THEN m1
           ELSE flog_open_sector(m1, fr.first_block, 1), LAMBDA m2 :
        LET sp0 == flash_read_spare(m1, 0)
            f   == [block |-> fr.first_block,
                    id |-> fr.file_id,
                    sector |-> IF sp0.nbytes # 0 THEN 0 ELSE 1,
                    offset |-> IF sp0.nbytes # 0
                               THEN SIZEOF_SECTOR0_HEADER ELSE 0,
                    sector_remaining_bytes |->
                        IF sp0.nbytes # 0 THEN sp0.nbytes
                        ELSE flash_read_spare(m2, 1).nbytes,
                    next |-> NULL]
            lst == IF m2.fs.read_head = NULL THEN NULL
                   ELSE ListLast([m2.r EXCEPT ![file] = f], m2.fs.read_head,
                                 Cardinality(DOMAIN m2.r) + 1)
        IN IF m2.fs.read_head = NULL
           THEN [m |-> flog_unlock_fs(flash_unlock(
                         [m2 EXCEPT !.r[file] = f, !.fs.read_head = file])),
                 ok |-> TRUE]
           ELSE IF lst = NULL
           THEN [m |-> Hang([m2 EXCEPT !.r[file] = f]), ok |-> FALSE]
           ELSE [m |-> flog_unlock_fs(flash_unlock(
                         [m2 EXCEPT !.r[file] = f, !.r[lst].next = file])),
                 ok |-> TRUE])))

\* fault: the walk starts from the null list head.
flogfs_close_read(mm, file) ==
    Bind(flog_lock_fs(mm), LAMBDA m0 :
      LET p == IF m0.fs.read_head = NULL THEN NULL
               ELSE ListPred(m0.r, m0.fs.read_head, file,
                             Cardinality(DOMAIN m0.r) + 1)
      IN IF m0.fs.read_head = file
         THEN [m |-> flog_unlock_fs([m0 EXCEPT !.fs.read_head = NULL]),
               ok |-> TRUE, fault |-> FALSE]
         ELSE IF m0.fs.read_head = NULL
         THEN [m |-> m0, ok |-> FALSE, fault |-> TRUE]
         ELSE IF p # NULL
         THEN [m |-> flog_unlock_fs(
                       [m0 EXCEPT !.r[p].next = m0.r[file].next]),
               ok |-> FALSE, fault |-> FALSE]
         ELSE [m |-> flog_unlock_fs(m0), ok |-> FALSE, fault |-> FALSE])

\* flash_read_sector(dst, sector, offset, n): the n bytes from `offset` of
\* the sector in the loaded page; beyond the sector they are not determined.
ReadBytes(sec, offset, n) ==
    [i \in 1 .. n |->
        IF offset + i - 1 \in ByteIdx THEN sec.data[offset + i - 1] ELSE JUNK]

HeaderOffset(sector) ==
    IF sector = FLOG_FILE_TAIL_SECTOR THEN SIZEOF_TAIL_HEADER
    ELSE IF sector = 0 THEN SIZEOF_SECTOR0_HEADER
    ELSE 0

\* One pass of the `if(file->sector_remaining_bytes == 0)` block of
\* flogfs_read: eof, or the descriptor moved to the next sector.
ReadAdvance(mm, file) ==
    Bind(mm, LAMBDA m :
      LET f == m.r[file]
      IN IF f.sector = FLOG_FILE_TAIL_SECTOR
         THEN
           Bind(flog_open_sector(m, f.block, FLOG_FILE_TAIL_SECTOR),
                LAMBDA m1 :
           Bind(flog_open_sector(m1,
                  Blk(flash_read_sector(m1, FLOG_FILE_TAIL_SECTOR).a), 0),
                LAMBDA m2 :
             LET blk == Blk(flash_read_sector(m1, FLOG_FILE_TAIL_SECTOR).a)
                 s0  == flash_read_sector(m2, 0)
                 ns  == IF s0.nbytes = 0 THEN 1 ELSE 0
             IN IF s0.b # f.id THEN [m |-> m2, eof |-> TRUE]
                ELSE [m |-> [m2 EXCEPT !.r[file] =
                               [f EXCEPT !.block = blk,
                                         !.sector = ns,
                                         !.sector_remaining_bytes = s0.nbytes,
                                         !.offset = HeaderOffset(ns)]],
                      eof |-> FALSE]))
         ELSE
           Bind(flog_open_sector(m, f.block, flog_increment_sector(f.sector)),
                LAMBDA m1 :
             LET ns == flog_increment_sector(f.sector)
                 sp == flash_read_spare(m1, ns)
             IN IF sp.nbytes = FLOG_SECTOR_NBYTES_INVALID
                THEN [m |-> m1, eof |-> TRUE]
                ELSE [m |-> [m1 EXCEPT !.r[file] =
                               [f EXCEPT !.sector = ns,
                                         !.sector_remaining_bytes = sp.nbytes,
                                         !.offset = HeaderOffset(ns)]],
                      eof |-> FALSE]))

\* The passes of flogfs_read's loop that copy nothing: the descriptor is
\* moved on until its sector holds bytes or the file ends.  s: m, eof, done.
SeekStep(ss, file) ==
    Bind(ss, LAMBDA s :
      IF s.done THEN s
      ELSE IF s.m.r[file].sector_remaining_bytes # 0
      THEN [s EXCEPT !.done = TRUE]
      ELSE Bind(ReadAdvance(s.m, file), LAMBDA a :
             [m |-> a.m, eof |-> a.eof,
              done |-> a.eof
                       \/ a.m.r[file].sector_remaining_bytes # 0]))

\* The state after k passes (k >= 1).
RECURSIVE SeekLoop(_, _, _)
SeekLoop(s0, file, k) ==
    IF k = 1 THEN SeekStep(s0, file)
    ELSE Bind(SeekLoop(s0, file, k \div 2), LAMBDA s1 :
           IF s1.done THEN s1 ELSE SeekLoop(s1, file, k - (k \div 2)))

\* One pass of the loop that copies bytes.  s: m, nbytes (still wanted),
\* out (copied so far), done, hung (the descriptor was moved WalkLimit
\* times and found no bytes: the loop goes round for ever).
ReadStep(ss, file) ==
    Bind(ss, LAMBDA s :
      IF s.done THEN s
      ELSE IF s.nbytes = 0 THEN [s EXCEPT !.done = TRUE]
      ELSE
        Bind(SeekLoop([m |-> s.m, eof |-> FALSE, done |-> FALSE], file,
                      WalkLimit), LAMBDA a :
          IF a.eof THEN [s EXCEPT !.m = a.m, !.done = TRUE]
          ELSE IF ~a.done
          THEN [s EXCEPT !.m = a.m, !.done = TRUE, !.hung = TRUE]
          ELSE
            Bind(flog_open_sector(a.m, a.m.r[file].block,
                                  a.m.r[file].sector), LAMBDA m1 :
              LET f   == m1.r[file]
                  n   == MIN(s.nbytes, f.sector_remaining_bytes)
                  sec == flash_read_sector(m1, f.sector)
              IN [s EXCEPT
                    !.m = [m1 EXCEPT
                             !.r[file].offset = @ + n,
                             !.r[file].sector_remaining_bytes = @ - n,
                             !.h.raw = @ \/ sec.nbytes
                                              = FLOG_SECTOR_NBYTES_INVALID],
                    !.nbytes = @ - n,
                    !.out = @ \o ReadBytes(sec, f.offset, n)])))

\* The state after k passes (k >= 1).
RECURSIVE ReadLoop(_, _, _)
ReadLoop(s0, file, k) ==
    IF k = 1 THEN ReadStep(s0, file)
    ELSE Bind(ReadLoop(s0, file, k \div 2), LAMBDA s1 :
           IF s1.done THEN s1 ELSE ReadLoop(s1, file, k - (k \div 2)))

\* Every pass but the last copies a byte or more.
flogfs_read(mm, file, nbytes) ==
    Bind(ReadLoop([m |-> flash_lock(flog_lock_fs(mm)), nbytes |-> nbytes,
                   out |-> <<>>, done |-> FALSE, hung |-> FALSE],
                  file, nbytes + 1), LAMBDA s :
      IF s.hung THEN [m |-> Hang(s.m), out |-> s.out]
      ELSE [m |-> flog_unlock_fs(flash_unlock(s.m)), out |-> s.out])

(***************************************************************************)
(* File writer                                                             *)
(***************************************************************************)
\* The caller's buffer from index `pos` on (the pointer src + pos).
SrcFrom(src, pos) ==
    IF pos >= Len(src) THEN <<>> ELSE SubSeq(src, pos + 1, Len(src))

\* A bound on the sector commits of one flogfs_write call: more than the
\* device has sectors.
MaxCommits == 33

\* One pass of the loop of flogfs_write.  s: m, pos (src advanced by pos),
\* nbytes, count, failed (a commit failed and the function returned
\* `count` at once), done.
WriteStep(ss, file, src) ==
    Bind(ss, LAMBDA s :
      IF s.done \/ s.m.h.hung THEN s
      ELSE IF s.nbytes = 0 THEN [s EXCEPT !.done = TRUE]
      ELSE
        LET f == s.m.w[file]
        IN IF s.nbytes >= f.sector_remaining_bytes
           THEN
             Bind(flog_commit_file_sector(s.m, file, SrcFrom(src, s.pos),
                                          f.sector_remaining_bytes),
                  LAMBDA c :
               LET rem == c.m.w[file].sector_remaining_bytes
               IN IF c.m.h.hung THEN [s EXCEPT !.m = c.m]
                  ELSE IF ~c.ok
                  THEN [s EXCEPT !.m = c.m, !.failed = TRUE, !.done = TRUE]
                  ELSE [s EXCEPT !.m = c.m,
                                 !.pos = @ + rem,
                                 !.nbytes = (@ - rem) % UINT32_MOD,
                                 !.count = (@ + rem) % UINT32_MOD])
           ELSE [s EXCEPT
                   !.m = [s.m EXCEPT !.w[file] =
                            [f EXCEPT
                               !.buf = [i \in ByteIdx |->
                                          IF i >= f.offset
                                             /\ i < f.offset + s.nbytes
                                          THEN SrcByte(src,
                                                       s.pos + i - f.offset)
                                          ELSE f.buf[i]],
                               !.sector_remaining_bytes = @ - s.nbytes,
                               !.offset = @ + s.nbytes,
                               !.bytes_in_block = @ + s.nbytes,
                               !.write_head = @ + s.nbytes]],
                   !.count = (@ + s.nbytes) % UINT32_MOD,
                   !.nbytes = 0,
                   !.done = TRUE])

\* The state after k passes (k >= 1).
RECURSIVE WriteLoop(_, _, _, _)
WriteLoop(s0, file, src, k) ==
    IF k = 1 THEN WriteStep(s0, file, src)
    ELSE Bind(WriteLoop(s0, file, src, k \div 2), LAMBDA s1 :
           IF s1.done THEN s1 ELSE WriteLoop(s1, file, src, k - (k \div 2)))

\* The early return after a failed commit releases neither lock.  A loop
\* that has not ended after MaxCommits passes does not end.
flogfs_write(mm, file, src, nbytes) ==
    Bind(WriteLoop([m |-> flash_lock(flog_lock_fs(mm)), pos |-> 0,
                    nbytes |-> nbytes, count |-> 0, failed |-> FALSE,
                    done |-> FALSE], file, src, MaxCommits), LAMBDA s :
      IF s.m.h.hung \/ ~s.done
      THEN [m |-> Hang(s.m), count |-> s.count, failed |-> FALSE]
      ELSE IF s.failed
      THEN [m |-> s.m, count |-> s.count, failed |-> TRUE]
      ELSE [m |-> flog_unlock_fs(flash_unlock(s.m)), count |-> s.count,
            failed |-> FALSE])

\* The new inode block of flog_inode_prepare_new, once it is allocated.
ExtendInodeChain(mm, it, al) ==
    Bind(mm, LAMBDA m :
      LET ts == m.fs.t + 1
          m1 == flog_open_sector([m EXCEPT !.fs.t = ts], it.block,
                                 FLOG_INODE_TAIL_SECTOR)
          m2 == flash_commit(flash_write_sector(
                  NoteTimestamp(m1, ts), FLOG_INODE_TAIL_SECTOR,
                  [ErasedSector EXCEPT !.a = al.block, !.b = al.age + 1,
                                       !.c = ts]))
          m3 == flog_open_sector(flash_erase_block(m2, al.block), al.block, 0)
          m4 == flash_write_sector(
                  NoteTimestamp(NoteAge(m3, al.block, al.age + 1), ts),
                  0, [ErasedSector EXCEPT !.a = al.age + 1, !.b = ts])
      IN flash_commit(flash_write_spare(m4, 0,
           [ErasedSector EXCEPT !.type_id = FLOG_BLOCK_TYPE_INODE,
                                !.idx = it.inode_block_idx + 1])))

flog_inode_prepare_new(mm, it) ==
    IF it.sector = FS_SECTORS_PER_PAGE - 2
    THEN
      Bind(flog_allocate_block(
             flog_flush_dirty_block(flog_lock_allocate(mm))), LAMBDA al :
        IF al.block = FLOG_BLOCK_IDX_INVALID
        THEN [m |-> flog_unlock_allocate(al.m), it |-> it, ok |-> FALSE]
        ELSE [m |-> ExtendInodeChain(flog_unlock_allocate(al.m), it, al),
              it |-> [it EXCEPT !.inode_block_idx = @ + 1,
                                !.next_block = al.block],
              ok |-> TRUE])
    ELSE [m |-> mm, it |-> it, ok |-> TRUE]

\* open_write of an existing file, part 1: walk the sealed blocks.
RECURSIVE SealedWalk(_, _, _, _)
SealedWalk(mm, block, write_head, k) ==
    IF k = 0 THEN [m |-> Hang(mm), block |-> block, write_head |-> write_head]
    ELSE Bind(flog_open_sector(mm, block, FLOG_FILE_TAIL_SECTOR), LAMBDA m1 :
           LET tail == flash_read_sector(m1, FLOG_FILE_TAIL_SECTOR)
           IN IF tail.c = FLOG_TIMESTAMP_INVALID
              THEN [m |-> m1, block |-> block, write_head |-> write_head]
              ELSE SealedWalk(m1, Blk(tail.a),
                              (write_head + tail.d) % UINT32_MOD, k - 1))

\* open_write of an existing file, part 2: find the first unwritten sector.
\* s: m, sector, write_head, done.
ScanStep(ss, block) ==
    Bind(ss, LAMBDA s :
      IF s.done THEN s
      ELSE Bind(flog_open_sector(s.m, block, s.sector), LAMBDA m1 :
             LET sp == flash_read_spare(m1, s.sector)
             IN IF sp.nbytes = FLOG_SECTOR_NBYTES_INVALID
                THEN [s EXCEPT !.m = m1, !.done = TRUE]
                ELSE [s EXCEPT
                        !.m = m1,
                        !.sector = flog_increment_sector(@),
                        !.write_head = (@ + sp.nbytes) % UINT32_MOD]))

\* The state after k passes (k >= 1).
RECURSIVE ScanLoop(_, _, _)
ScanLoop(s0, block, k) ==
    IF k = 1 THEN ScanStep(s0, block)
    ELSE Bind(ScanLoop(s0, block, k \div 2), LAMBDA s1 :
           IF s1.done THEN s1 ELSE ScanLoop(s1, block, k - (k \div 2)))

SectorScan(mm, block, sector, write_head) ==
    Bind(ScanLoop([m |-> mm, sector |-> sector, write_head |-> write_head,
                   done |-> FALSE], block, WalkLimit), LAMBDA s :
      [m |-> IF s.done THEN s.m ELSE Hang(s.m), sector |-> s.sector,
       write_head |-> s.write_head])

\* bytes_in_block is not set when an existing file is opened: `garbage` is
\* the value the caller's structure happens to hold.
OpenExisting(mm, file, fr, garbage) ==
    Bind(SealedWalk(mm, fr.first_block, 0, FS_NUM_BLOCKS + 1), LAMBDA w1 :
    IF w1.m.h.hung THEN [m |-> w1.m, ok |-> FALSE]
    ELSE
    Bind(flog_open_sector(w1.m, w1.block, 0), LAMBDA m1 :
    Bind(SectorScan(m1, w1.block, flog_increment_sector(0),
                    (w1.write_head + flash_read_spare(m1, 0).nbytes)
                       % UINT32_MOD), LAMBDA w2 :
      LET o == IF w2.sector = FLOG_FILE_TAIL_SECTOR
               THEN SIZEOF_TAIL_HEADER ELSE 0
      IN [m |-> [w2.m EXCEPT !.w[file] =
                   [block |-> w1.block, block_age |-> 0, sector |-> w2.sector,
                    offset |-> o, write_head |-> w2.write_head,
                    bytes_in_block |-> garbage,
                    sector_remaining_bytes |-> FS_SECTOR_SIZE - o,
                    id |-> fr.file_id, buf |-> BlankBuffer, next |-> NULL]],
          ok |-> TRUE])))

\* A creation that erases the block it claims before it programs the
\* allocation record.
CreateFileEraseFirst(mm, file, it0, filename) ==
    Bind(flog_inode_prepare_new(mm, it0), LAMBDA p :
    IF ~p.ok \/ p.m.h.hung THEN [m |-> p.m, ok |-> FALSE]
    ELSE
    Bind(flog_flush_dirty_block(flog_lock_allocate(p.m)), LAMBDA mA :
    IF mA.h.hung THEN [m |-> mA, ok |-> FALSE]
    ELSE
    Bind(flog_allocate_block(mA), LAMBDA al :
    IF al.block = FLOG_BLOCK_IDX_INVALID
    THEN [m |-> flog_unlock_allocate(al.m), ok |-> FALSE]
    ELSE
      LET id  == al.m.fs.max_file_id + 1
          age == al.age + 1
          ts  == al.m.fs.t + 1
          m1  == flog_unlock_allocate(
                   [al.m EXCEPT !.fs.dirty_block =
                                   [block |-> al.block, file |-> file],
                                !.fs.max_file_id = id,
                                !.fs.t = ts])
          m2  == flog_open_sector(flash_erase_block(m1, al.block),
                                  p.it.block, p.it.sector)
          m3  == flash_commit(flash_write_sector(
                   NoteTimestamp(m2, ts), p.it.sector,
                   [ErasedSector EXCEPT !.a = id, !.b = al.block,
                                        !.c = age, !.d = ts,
                                        !.name = filename]))
      IN [m |-> [m3 EXCEPT !.w[file] =
                   [block |-> al.block, block_age |-> age, sector |-> 0,
                    offset |-> SIZEOF_SECTOR0_HEADER, write_head |-> 0,
                    bytes_in_block |-> 0,
                    sector_remaining_bytes |->
                        FS_SECTOR_SIZE - SIZEOF_SECTOR0_HEADER,
                    id |-> id, buf |-> BlankBuffer, next |-> NULL]],
          ok |-> TRUE])))

\* The creation of a file by flogfs_open_write.
CreateFile(mm, file, it0, filename) ==
    Bind(flog_inode_prepare_new(mm, it0), LAMBDA p :
    IF ~p.ok \/ p.m.h.hung THEN [m |-> p.m, ok |-> FALSE]
    ELSE
    Bind(flog_flush_dirty_block(flog_lock_allocate(p.m)), LAMBDA mA :
    IF mA.h.hung THEN [m |-> mA, ok |-> FALSE]
    ELSE
    Bind(flog_allocate_block(mA), LAMBDA al :
    IF al.block = FLOG_BLOCK_IDX_INVALID
    THEN [m |-> flog_unlock_allocate(al.m), ok |-> FALSE]
    ELSE
      LET id  == al.m.fs.max_file_id + 1
          age == al.age + 1
          ts  == al.m.fs.t + 1
          m1  == flog_unlock_allocate(
                   [al.m EXCEPT !.fs.dirty_block =
                                   [block |-> al.block, file |-> file],
                                !.fs.max_file_id = id,
                                !.fs.t = ts])
          m2  == flog_open_sector(m1, p.it.block, p.it.sector)
          m3  == flash_commit(flash_write_sector(
                   NoteTimestamp(m2, ts), p.it.sector,
                   [ErasedSector EXCEPT !.a = id, !.b = al.block,
                                        !.c = age, !.d = ts,
                                        !.name = filename]))
      IN [m |-> [flash_erase_block(m3, al.block) EXCEPT !.w[file] =
                   [block |-> al.block, block_age |-> age, sector |-> 0,
                    offset |-> SIZEOF_SECTOR0_HEADER, write_head |-> 0,
                    bytes_in_block |-> 0,
                    sector_remaining_bytes |->
                        FS_SECTOR_SIZE - SIZEOF_SECTOR0_HEADER,
                    id |-> id, buf |-> BlankBuffer, next |-> NULL]],
          ok |-> TRUE])))

\* The descriptor is appended to the open-write list.
LinkWriter(mm, file) ==
    Bind(mm, LAMBDA m :
      LET lst == ListLast(m.w, m.fs.write_head, Cardinality(DOMAIN m.w) + 1)
      IN IF m.fs.write_head = NULL
         THEN [m |-> flog_unlock_fs(flash_unlock(
                       [m EXCEPT !.fs.write_head = file])),
               ok |-> TRUE]
         ELSE IF lst = NULL THEN [m |-> Hang(m), ok |-> FALSE]
         ELSE [m |-> flog_unlock_fs(flash_unlock(
                       [m EXCEPT !.w[lst].next = file])),
               ok |-> TRUE])

flogfs_open_write(mm, file, filename, garbage) ==
    Bind(flog_find_file(flash_lock(flog_lock_fs(mm)), filename), LAMBDA fr :
    IF fr.hung THEN [m |-> Hang(fr.m), ok |-> FALSE]
    ELSE
    Bind(IF fr.first_block # FLOG_BLOCK_IDX_INVALID
         THEN OpenExisting(fr.m, file, fr, garbage)
         ELSE CreateFile(fr.m, file, fr.it, filename), LAMBDA o :
      IF o.m.h.hung THEN [m |-> o.m, ok |-> FALSE]
      ELSE IF ~o.ok
      THEN [m |-> flog_unlock_fs(flash_unlock(o.m)), ok |-> FALSE]
      ELSE LinkWriter(o.m, file)))

\* fault: the walk starts from the null list head.
flogfs_close_write(mm, file) ==
    Bind(flash_lock(flog_lock_fs(mm)), LAMBDA m0 :
      IF m0.fs.write_head = file
      THEN Bind(flog_flush_write([m0 EXCEPT !.fs.write_head = NULL], file),
                LAMBDA fl :
             IF fl.m.h.hung
             THEN [m |-> fl.m, ok |-> FALSE, fault |-> FALSE]
             ELSE [m |-> flog_unlock_fs(flash_unlock(fl.m)), ok |-> fl.ok,
                   fault |-> FALSE])
      ELSE IF m0.fs.write_head = NULL
      THEN [m |-> m0, ok |-> FALSE, fault |-> TRUE]
      ELSE
        LET p == ListPred(m0.w, m0.fs.write_head, file,
                          Cardinality(DOMAIN m0.w) + 1)
        IN IF p # NULL
           THEN [m |-> flog_unlock_fs(flash_unlock(
                         [m0 EXCEPT !.w[p].next = m0.w[file].next])),
                 ok |-> FALSE, fault |-> FALSE]
           ELSE [m |-> flog_unlock_fs(flash_unlock(m0)), ok |-> FALSE,
                 fault |-> FALSE])

(***************************************************************************)
(* Deletion                                                                *)
(***************************************************************************)
\* k bounds the blocks visited: a longer walk goes round a cycle for ever.
RECURSIVE InvalidateLoop(_, _, _)
InvalidateLoop(mm, base, k) ==
    IF k = 0 THEN Hang(mm)
    ELSE
      Bind(flog_open_sector(mm, base, FLOG_FILE_TAIL_SECTOR), LAMBDA m1 :
      Bind(flog_open_sector(m1, base, FLOG_FILE_INVALIDATION_SECTOR),
           LAMBDA m2 :
        LET tail == flash_read_sector(m1, FLOG_FILE_TAIL_SECTOR)
            inv  == flash_read_sector(m2, FLOG_FILE_INVALIDATION_SECTOR)
            ts   == m2.fs.t + 1
            m3   == flog_open_sector([m2 EXCEPT !.fs.t = ts], base,
                                     FLOG_FILE_INVALIDATION_SECTOR)
            m4   == flash_commit(flash_write_sector(
                      NoteTimestamp(m3, ts), FLOG_FILE_INVALIDATION_SECTOR,
                      [ErasedSector EXCEPT !.a = ts, !.b = tail.b]))
        IN IF inv.a # FLOG_TIMESTAMP_INVALID
           THEN IF inv.b = FLOG_BLOCK_AGE_INVALID THEN m2
                ELSE IF Blk(tail.a) = FLOG_BLOCK_IDX_INVALID THEN m2
                ELSE InvalidateLoop(m2, Blk(tail.a), k - 1)
           ELSE IF Blk(tail.a) = FLOG_BLOCK_IDX_INVALID
                THEN [m4 EXCEPT !.fs.num_free_blocks = @ + 1]
                ELSE InvalidateLoop([m4 EXCEPT !.fs.num_free_blocks = @ + 1],
                                    Blk(tail.a), k - 1)))

flog_invalidate_chain(m, base) ==
    InvalidateLoop(m, base, 2 * FS_NUM_BLOCKS + 2)

\* The walk of flogfs_rm to the last block of the chain.
RECURSIVE LastBlockWalk(_, _, _)
LastBlockWalk(mm, block, k) ==
    IF k = 0 THEN [m |-> Hang(mm), block |-> block]
    ELSE Bind(flog_open_sector(mm, block, FLOG_FILE_TAIL_SECTOR), LAMBDA m1 :
           LET nb == Blk(flash_read_sector(m1, FLOG_FILE_TAIL_SECTOR).a)
           IN IF nb = FLOG_BLOCK_IDX_INVALID
              THEN [m |-> m1, block |-> block]
              ELSE LastBlockWalk(m1, nb, k - 1))

\* The inode invalidation record is written and not committed.
flogfs_rm(mm, filename) ==
    Bind(flog_find_file(flash_lock(flog_lock_fs(mm)), filename), LAMBDA fr :
    IF fr.hung THEN [m |-> Hang(fr.m), ok |-> FALSE]
    ELSE IF fr.first_block = FLOG_BLOCK_IDX_INVALID
    THEN [m |-> flog_unlock_fs(flash_unlock(fr.m)), ok |-> FALSE]
    ELSE
    Bind(LastBlockWalk(fr.m, fr.first_block, FS_NUM_BLOCKS + 1), LAMBDA lb :
    IF lb.m.h.hung THEN [m |-> lb.m, ok |-> FALSE]
    ELSE
      LET ts == lb.m.fs.t + 1
          m1 == flog_open_sector([lb.m EXCEPT !.fs.t = ts], fr.it.block,
                                 fr.it.sector + 1)
          m2 == flash_write_sector(NoteTimestamp(m1, ts), fr.it.sector + 1,
                   [ErasedSector EXCEPT !.a = ts, !.b = lb.block])
      IN Bind(flog_invalidate_chain(m2, fr.first_block), LAMBDA m3 :
           IF m3.h.hung THEN [m |-> m3, ok |-> FALSE]
           ELSE [m |-> flog_unlock_fs(flash_unlock(m3)), ok |-> TRUE])))

(***************************************************************************)
(* Initialisation, format and mount                                        *)
(***************************************************************************)
FLOG_STATE_RESET == "RESET"

FLOG_STATE_MOUNTED == "MOUNTED"

\* The file-system structure of a process that has just started: statics
\* are zero.
ZeroFs ==
    [state |-> FLOG_STATE_RESET, t |-> 0, max_file_id |-> 0,
     num_free_blocks |-> 0, inode0 |-> 0, read_head |-> NULL,
     write_head |-> NULL,
     dirty_block |-> [block |-> 0, file |-> NULL],
     allocate_head |-> 0,
     cache |-> [page_open |-> FALSE, current_open_block |-> 0,
                current_open_page |-> 0],
     lock |-> FALSE, flash_lock |-> FALSE, allocate_lock |-> 0,
     prealloc |-> <<>>, age_sum |-> 0]

flogfs_init(m) ==
    [m EXCEPT !.fs.allocate_lock = 0,
              !.fs.lock = FALSE,
              !.fs.state = FLOG_STATE_RESET,
              !.fs.cache.page_open = FALSE,
              !.fs.dirty_block.block = FLOG_BLOCK_IDX_INVALID]

\* The erase loop of flogfs_format from block i on: blocks marked bad are
\* skipped; first_valid is the first block that is not.
RECURSIVE FormatErase(_, _, _)
FormatErase(mm, i, first_valid) ==
    IF i = FS_NUM_BLOCKS THEN [m |-> mm, first_valid |-> first_valid]
    ELSE Bind(flog_open_page(mm, i, 0), LAMBDA m1 :
           IF flash_block_is_bad(m1) THEN FormatErase(m1, i + 1, first_valid)
           ELSE FormatErase(flash_erase_block(m1, i), i + 1,
                            IF first_valid = FLOG_BLOCK_IDX_INVALID THEN i
                            ELSE first_valid))

\* Every block is erased, so the history of ages and timestamps restarts.
flogfs_format(mm) ==
    Bind(FormatErase(flog_lock_fs(flash_lock(mm)), 0,
                     FLOG_BLOCK_IDX_INVALID), LAMBDA e :
      LET m1 == e.m
          m2 == IF Powered(m1)
                THEN [m1 EXCEPT !.h.ts_last = -1,
                                !.h.age_at = [b \in Blocks |-> -1]]
                ELSE m1
          m3 == flash_open_page(m2, e.first_valid, 0)
          m4 == flash_write_sector(
                   NoteTimestamp(NoteAge(m3, e.first_valid, 0), 0), 0,
                   [ErasedSector EXCEPT !.a = 0, !.b = 0])
          m5 == flash_write_spare(m4, 0,
                   [ErasedSector EXCEPT !.idx = 0,
                                        !.type_id = FLOG_BLOCK_TYPE_INODE])
      IN flash_unlock(flog_unlock_fs(flash_commit(m5))))

NoAllocation ==
    [block |-> FLOG_BLOCK_IDX_INVALID, age |-> 0, file_id |-> 0,
     timestamp |-> 0]

NoDeletion ==
    [first_block |-> 0, last_block |-> 0,
     file_id |-> FLOG_FILE_ID_INVALID, timestamp |-> 0]

\* A first pass that passes over a block of a type it does not know
\* instead of giving up.
RECURSIVE MountScanLenient(_, _, _)
MountScanLenient(mm, i, acc0) ==
    IF i = FS_NUM_BLOCKS \/ ~acc0.ok THEN [m |-> mm, acc |-> acc0]
    ELSE
      Bind(flash_open_page(mm, i, 0), LAMBDA m1 : Bind(acc0, LAMBDA acc :
        IF flash_block_is_bad(m1) THEN MountScanLenient(m1, i + 1, acc)
        ELSE
        LET sp   == flash_read_spare(m1, 0)
            s0   == flash_read_sector(m1, 0)
            tail == flash_read_sector(m1, FLOG_FILE_TAIL_SECTOR)
            inv  == flash_read_sector(m1, FLOG_FILE_INVALIDATION_SECTOR)
            used == sp.type_id \in {FLOG_BLOCK_TYPE_FILE,
                                    FLOG_BLOCK_TYPE_INODE}
            free == IF sp.type_id = FLOG_BLOCK_TYPE_UNALLOCATED THEN 1
                    ELSE IF used /\ inv.a # FLOG_TIMESTAMP_INVALID THEN 1
                    ELSE 0
            m2   == [m1 EXCEPT !.fs.num_free_blocks = @ + free]
        IN IF sp.type_id = FLOG_BLOCK_TYPE_INODE
           THEN MountScanLenient(m2, i + 1,
                  [acc EXCEPT !.inode0 =
                     IF flash_read_sector(m1, FLOG_INODE_INVALIDATION_SECTOR).a
                          = FLOG_TIMESTAMP_INVALID /\ sp.idx = 0
                     THEN i ELSE @])
           ELSE IF sp.type_id = FLOG_BLOCK_TYPE_FILE
           THEN MountScanLenient(m2, i + 1,
                  [acc EXCEPT !.la =
                     IF tail.c # FLOG_TIMESTAMP_INVALID
                        /\ tail.c > @.timestamp
                     THEN [block |-> Blk(tail.a), age |-> tail.b,
                           file_id |-> s0.b, timestamp |-> tail.c]
                     ELSE @])
           ELSE IF sp.type_id = FLOG_BLOCK_TYPE_UNALLOCATED
           THEN MountScanLenient(m2, i + 1, acc)
           ELSE MountScanLenient(m1, i + 1, acc)))

\* Pass 1 of flogfs_mount: the scan of every block from block i on.
\* acc: la (last_allocation), ld (last_deletion), inode0 (inode0_idx), ok.
RECURSIVE MountScan(_, _, _)
MountScan(mm, i, acc0) ==
    IF i = FS_NUM_BLOCKS \/ ~acc0.ok THEN [m |-> mm, acc |-> acc0]
    ELSE
      Bind(flash_open_page(mm, i, 0), LAMBDA m1 : Bind(acc0, LAMBDA acc :
        IF flash_block_is_bad(m1) THEN MountScan(m1, i + 1, acc)
        ELSE
        LET sp   == flash_read_spare(m1, 0)
            s0   == flash_read_sector(m1, 0)
            tail == flash_read_sector(m1, FLOG_FILE_TAIL_SECTOR)
            inv  == flash_read_sector(m1, FLOG_FILE_INVALIDATION_SECTOR)
            used == sp.type_id \in {FLOG_BLOCK_TYPE_FILE,
                                    FLOG_BLOCK_TYPE_INODE}
            free == IF sp.type_id = FLOG_BLOCK_TYPE_UNALLOCATED THEN 1
                    ELSE IF used /\ inv.a # FLOG_TIMESTAMP_INVALID THEN 1
                    ELSE 0
            m2   == [m1 EXCEPT !.fs.num_free_blocks = @ + free]
        IN IF sp.type_id = FLOG_BLOCK_TYPE_INODE
           THEN MountScan(m2, i + 1,
                  [acc EXCEPT !.inode0 =
                     IF flash_read_sector(m1, FLOG_INODE_INVALIDATION_SECTOR).a
                          = FLOG_TIMESTAMP_INVALID /\ sp.idx = 0
                     THEN i ELSE @])
           ELSE IF sp.type_id = FLOG_BLOCK_TYPE_FILE
           THEN MountScan(m2, i + 1,
                  [acc EXCEPT !.la =
                     IF tail.c # FLOG_TIMESTAMP_INVALID
                        /\ tail.c > @.timestamp
                     THEN [block |-> Blk(tail.a), age |-> tail.b,
                           file_id |-> s0.b, timestamp |-> tail.c]
                     ELSE @])
           ELSE IF sp.type_id = FLOG_BLOCK_TYPE_UNALLOCATED
           THEN MountScan(m2, i + 1, acc)
           ELSE [m |-> m1, acc |-> [acc EXCEPT !.ok = FALSE]]))

\* Pass 2 of flogfs_mount: one entry of the inode chain.  s: m, it, acc,
\* done.
MountInodeStep(ss) ==
    Bind(ss, LAMBDA s :
      IF s.done THEN s
      ELSE
        Bind(flog_open_sector(s.m, s.it.block, s.it.sector), LAMBDA m1 :
          LET rec == flash_read_sector(m1, s.it.sector)
          IN IF rec.a = FLOG_FILE_ID_INVALID
             THEN [s EXCEPT !.m = m1, !.done = TRUE]
             ELSE
               Bind(flog_open_sector(m1, s.it.block, s.it.sector + 1),
                    LAMBDA m2 :
               Bind(flog_inode_iterator_next(
                      [m2 EXCEPT !.fs.max_file_id = rec.a], s.it), LAMBDA n :
                 LET inv == flash_read_sector(m2, s.it.sector + 1)
                 IN IF inv.a = FLOG_TIMESTAMP_INVALID
                    THEN [s EXCEPT
                            !.m = n.m, !.it = n.it,
                            !.acc.la =
                               IF rec.d > @.timestamp
                               THEN [block |-> Blk(rec.b), age |-> rec.c,
                                     file_id |-> rec.a, timestamp |-> rec.d]
                               ELSE @]
                    ELSE [s EXCEPT
                            !.m = n.m, !.it = n.it,
                            !.acc.ld =
                               IF inv.a > @.timestamp
                               THEN [first_block |-> Blk(rec.b),
                                     last_block |-> Blk(inv.b),
                                     file_id |-> rec.a, timestamp |-> inv.a]
                               ELSE @]))))

\* The state after k passes (k >= 1).
RECURSIVE MountInodes(_, _)
MountInodes(s0, k) ==
    IF k = 1 THEN MountInodeStep(s0)
    ELSE Bind(MountInodes(s0, k \div 2), LAMBDA s1 :
           IF s1.done THEN s1 ELSE MountInodes(s1, k - (k \div 2)))

\* Recovery of the last allocation.
MountFixAllocation(mm, la) ==
    IF la.timestamp = 0 THEN mm
    ELSE
      Bind(flog_open_sector(mm, la.block, 0), LAMBDA m1 :
        LET m2 == flog_open_page(flash_erase_block(m1, la.block), la.block, 0)
            m3 == flash_write_sector(NoteAge(m2, la.block, la.age), 0,
                     [ErasedSector EXCEPT !.a = la.age, !.b = la.file_id])
            m4 == flash_write_spare(m3, 0,
                     [ErasedSector EXCEPT !.nbytes = 0,
                                          !.type_id = FLOG_BLOCK_TYPE_FILE])
        IN IF flash_read_sector(m1, 0).b # la.file_id
           THEN [flash_commit(m4) EXCEPT !.fs.t = la.timestamp + 1]
           ELSE m1)

\* A recovery of the last deletion that tests the invalidation sector
\* itself.
MountFixDeletionStamp(mm, ld) ==
    IF ld.timestamp = 0 THEN mm
    ELSE
      Bind(flog_open_sector(mm, ld.last_block, 0), LAMBDA m1 :
        IF flash_read_sector(m1, 0).b # ld.file_id THEN m1
        ELSE
          Bind(flog_open_sector(m1, ld.last_block,
                                FLOG_FILE_INVALIDATION_SECTOR), LAMBDA m2 :
            IF flash_read_sector(m2, FLOG_FILE_INVALIDATION_SECTOR).a
                 # FLOG_TIMESTAMP_INVALID
            THEN flog_invalidate_chain(m2, ld.first_block)
            ELSE m2))

\* Recovery of the last deletion.  The header tested is read from sector 0
\* of the open page.
MountFixDeletion(mm, ld) ==
    IF ld.timestamp = 0 THEN mm
    ELSE
      Bind(flog_open_sector(mm, ld.last_block, 0), LAMBDA m1 :
        IF flash_read_sector(m1, 0).b # ld.file_id THEN m1
        ELSE
          Bind(flog_open_sector(m1, ld.last_block,
                                FLOG_FILE_INVALIDATION_SECTOR), LAMBDA m2 :
            IF flash_read_sector(m2, 0).a # FLOG_TIMESTAMP_INVALID
            THEN flog_invalidate_chain(m2, ld.first_block)
            ELSE m2))

\* num_free_blocks is zeroed before the state is looked at.
flogfs_mount(mm) ==
    Bind(flog_lock_fs([mm EXCEPT !.fs.num_free_blocks = 0]), LAMBDA m0 :
    IF m0.fs.state = FLOG_STATE_MOUNTED
    THEN [m |-> flog_unlock_fs(m0), ok |-> TRUE]
    ELSE
    Bind(MountScan(flash_lock(m0), 0,
           [la |-> NoAllocation, ld |-> NoDeletion,
            inode0 |-> FLOG_BLOCK_IDX_INVALID, ok |-> TRUE]), LAMBDA p1 :
    IF ~p1.acc.ok \/ p1.acc.inode0 = FLOG_BLOCK_IDX_INVALID
    THEN [m |-> flog_unlock_fs(flash_unlock(p1.m)), ok |-> FALSE]
    ELSE
    Bind(flog_inode_iterator_init(p1.m, p1.acc.inode0), LAMBDA i :
    Bind(MountInodes([m |-> i.m, it |-> i.it, acc |-> p1.acc,
                      done |-> FALSE], WalkLimit), LAMBDA p2 :
    IF ~p2.done THEN [m |-> Hang(p2.m), ok |-> FALSE]
    ELSE
    Bind(MountFixDeletion(MountFixAllocation(p2.m, p2.acc.la), p2.acc.ld),
         LAMBDA m4 :
      IF m4.h.hung THEN [m |-> m4, ok |-> FALSE]
      ELSE [m |-> flog_unlock_fs(flash_unlock(
                    [m4 EXCEPT !.fs.state = FLOG_STATE_MOUNTED])),
            ok |-> TRUE])))))

(***************************************************************************)
(* Directory listing                                                       *)
(***************************************************************************)
flogfs_start_ls(m) == flog_inode_iterator_init(m, m.fs.inode0)

\* One pass of the loop of flogfs_ls_iterate.  s: m, it, name, done; name
\* is NONAME when the iteration returns 0.
LsStep(ss) ==
    Bind(ss, LAMBDA s :
      IF s.done THEN s
      ELSE
        Bind(flog_open_sector(s.m, s.it.block, s.it.sector), LAMBDA m1 :
          LET rec == flash_read_sector(m1, s.it.sector)
          IN IF rec.a = FLOG_FILE_ID_INVALID
             THEN [s EXCEPT !.m = m1, !.done = TRUE]
             ELSE
               Bind(flog_open_sector(m1, s.it.block, s.it.sector + 1),
                    LAMBDA m2 :
                 IF flash_read_sector(m2, s.it.sector + 1).a
                      = FLOG_TIMESTAMP_INVALID
                 THEN Bind(flog_inode_iterator_next(
                             flog_open_sector(m2, s.it.block, s.it.sector),
                             s.it), LAMBDA n :
                        [m |-> n.m, it |-> n.it, name |-> rec.name,
                         done |-> TRUE])
                 ELSE Bind(flog_inode_iterator_next(m2, s.it), LAMBDA n :
                        [s EXCEPT !.m = n.m, !.it = n.it]))))

\* The state after k passes (k >= 1).
RECURSIVE LsLoop(_, _)
LsLoop(s0, k) ==
    IF k = 1 THEN LsStep(s0)
    ELSE Bind(LsLoop(s0, k \div 2), LAMBDA s1 :
           IF s1.done THEN s1 ELSE LsLoop(s1, k - (k \div 2)))

\* cur: the machine and the iterator.
flogfs_ls_iterate(cur) ==
    Bind(LsLoop([m |-> cur.m, it |-> cur.it, name |-> NONAME,
                 done |-> FALSE], WalkLimit), LAMBDA s :
      [m |-> IF s.done THEN s.m ELSE Hang(s.m), it |-> s.it,
       name |-> s.name])

(***************************************************************************)
(* The state machine.  nand, dev: the chip and the driver's page buffer;   *)
(* fs: the flogfs structure; w, r: the caller's write and read             *)
(* descriptors; hist: the history; drv: the driver's kind; user: what the  *)
(* caller has done (its view of each descriptor and file, the result of    *)
(* its last call, the calls it may still make).                            *)
(***************************************************************************)
VARIABLES nand, dev, fs, w, r, hist, drv, user

vars == <<nand, dev, fs, w, r, hist, drv, user>>

Names == {"a", "b"}

Writers == {"w1", "w2"}

Readers == {"r1", "r2", "r3"}

\* The payload byte at position i (from 1) of file `name`: never all-ones.
Payload(name, i) == (IF name = "a" THEN 0 ELSE 100) + i

Bytes(name, from, n) == [i \in 1 .. n |-> Payload(name, from + i)]

ZeroWrite ==
    [block |-> 0, block_age |-> 0, sector |-> 0, offset |-> 0,
     write_head |-> 0, bytes_in_block |-> 0, sector_remaining_bytes |-> 0,
     id |-> 0, buf |-> BlankBuffer, next |-> NULL]

ZeroRead ==
    [block |-> 0, id |-> 0, sector |-> 0, offset |-> 0,
     sector_remaining_bytes |-> 0, next |-> NULL]

NoDevice == [b |-> -1, p |-> -1, buf |-> ErasedPage, st |-> ErasedPage]

ZeroHist ==
    [hung |-> FALSE, ts_last |-> -1, ts_mono |-> TRUE,
     age_at |-> [b \in Blocks |-> -1], age_mono |-> TRUE, raw |-> FALSE,
     relock |-> FALSE]

\* The machine of the operators above, from the variables.
Machine(fuel) ==
    [nand |-> nand, dev |-> dev, fs |-> fs, w |-> w, r |-> r, h |-> hist,
     drv |-> drv, fuel |-> fuel]

\* The machine as it is when power returns: flash kept, RAM zeroed, then
\* flogfs_init.
Reboot(m) ==
    flogfs_init([m EXCEPT !.dev = NoDevice, !.fs = ZeroFs,
                          !.w = [d \in Writers |-> ZeroWrite],
                          !.r = [d \in Readers |-> ZeroRead],
                          !.h.hung = FALSE, !.fuel = -1])

\* The caller's record of a file: st is "none" (no such file), "open"
\* (created by open_write and being written), "closed" (then closed) or
\* "other" (anything else: reopened, interrupted, a write that failed);
\* len counts the bytes handed to write, nw the write calls (2: two or
\* more); shared: another file was open for writing while this one was.
NoFile == [st |-> "none", len |-> 0, nw |-> 0, shared |-> FALSE]

\* The tasks that call the file system, and where each one is: pc is
\* "idle" between calls, else the point of the operation the task has
\* reached; holds: the locks it has taken; it: its ls iterator.
Tasks == {"t1", "t2"}

IdleTask == [pc |-> "idle", holds |-> {}, it |-> <<>>]

\* The caller's record of its last call.  list: the open list before a
\* close; before, after: write_head around a write.
NoLast ==
    [op |-> "none", d |-> NULL, name |-> NONAME, n |-> 0, ret |-> 0,
     ok |-> TRUE, out |-> <<>>, before |-> 0, after |-> 0, list |-> <<>>,
     at |-> "none"]

NoCrash ==
    [op |-> "none", name |-> NONAME, fuel |-> 0, was |-> <<>>, done |-> <<>>,
     pre |-> <<>>, post |-> <<>>, got |-> <<>>]

\* cfg: the calls this caller makes (descriptors, names, sizes, power-loss
\* points; strict: it closes open descriptors only); budget: how many calls
\* it still makes.
FreshUser(cfg, budget) ==
    [cfg |-> cfg,
     budget |-> budget,
     wname |-> [d \in Writers |-> NONAME],
     rname |-> [d \in Readers |-> NONAME],
     rat |-> [d \in Readers |-> "none"],
     files |-> [f \in Names |-> NoFile],
     last |-> NoLast,
     crash |-> NoCrash,
     tasks |-> [t \in Tasks |-> IdleTask]]

Install(m, u) ==
    /\ nand' = m.nand
    /\ dev' = m.dev
    /\ fs' = m.fs
    /\ w' = m.w
    /\ r' = m.r
    /\ hist' = m.h
    /\ user' = [u EXCEPT !.budget = @ - 1]
    /\ UNCHANGED drv

\* A call can be made: the process runs and the caller has calls left.
CanCall == ~hist.hung /\ user.budget > 0

\* A call made while a lock it takes is held waits for ever.
Blocked == fs.lock \/ fs.flash_lock

Stuck(op) ==
    Install(Hang(Machine(-1)), [user EXCEPT !.last = [NoLast EXCEPT !.op = op]])

Mounted == fs.state = FLOG_STATE_MOUNTED

\* A value for a field that open_write leaves unset.
GarbageBytes == 7

\* The open list from `x` on, as a sequence (k bounds its length).
RECURSIVE ListSeq(_, _, _)
ListSeq(files, x, k) ==
    IF x = NULL \/ k = 0 THEN <<>>
    ELSE <<x>> \o ListSeq(files, files[x].next, k - 1)

WriteList == ListSeq(w, fs.write_head, Cardinality(Writers))

ReadList == ListSeq(r, fs.read_head, Cardinality(Readers))

Touch(u, name) == [u EXCEPT !.files[name].st = "other"]

(***************************************************************************)
(* Actions: one per call of the API, and the loss of power.                *)
(***************************************************************************)
Format ==
    /\ CanCall /\ ~Mounted
    /\ IF Blocked THEN Stuck("format")
       ELSE Install(flogfs_format(Machine(-1)),
                    [user EXCEPT !.files = [f \in Names |-> NoFile],
                                 !.last = [NoLast EXCEPT !.op = "format"]])

Mount ==
    /\ CanCall
    /\ IF fs.lock THEN Stuck("mount")
       ELSE \E res \in {flogfs_mount(Machine(-1))} :
              Install(res.m,
                 [user EXCEPT !.last = [NoLast EXCEPT !.op = "mount",
                                                      !.ok = res.ok]])

\* Power is cycled between two calls.
PowerCycle ==
    /\ user.budget > 0
    /\ Install(Reboot(Machine(-1)),
         [user EXCEPT
            !.wname = [d \in Writers |-> NONAME],
            !.rname = [d \in Readers |-> NONAME],
            !.files = [f \in Names |->
                         IF @[f].st = "open" THEN [@[f] EXCEPT !.st = "other"]
                         ELSE @[f]],
            !.last = [NoLast EXCEPT !.op = "reboot"]])

OpenWrite ==
    \E d \in user.cfg.writers, name \in user.cfg.names :
      \E garbage \in {w[d].bytes_in_block, GarbageBytes} :
        /\ CanCall /\ Mounted
        /\ user.wname[d] = NONAME
        /\ \A e \in Writers : user.wname[e] # name
        /\ IF Blocked THEN Stuck("open_write")
           ELSE
             \E new \in {flog_find_file(Machine(-1), name).first_block
                             = FLOG_BLOCK_IDX_INVALID},
                res \in {flogfs_open_write(Machine(-1), d, name, garbage)} :
                /\ new => garbage = w[d].bytes_in_block
                /\ Install(res.m,
                     [user EXCEPT
                        !.wname[d] = IF res.ok THEN name ELSE NONAME,
                        !.files =
                           [f \in Names |->
                              IF ~res.ok THEN @[f]
                              ELSE IF f = name
                              THEN IF new
                                   THEN [st |-> "open", len |-> 0, nw |-> 0,
                                         shared |->
                                            \E e \in Writers :
                                               user.wname[e] # NONAME]
                                   ELSE [@[f] EXCEPT !.st = "other"]
                              ELSE IF \E e \in Writers : user.wname[e] = f
                              THEN [@[f] EXCEPT !.shared = TRUE]
                              ELSE @[f]],
                        !.last = [NoLast EXCEPT !.op = "open_write", !.d = d,
                                                !.name = name, !.ok = res.ok]])

Write ==
    \E d \in user.cfg.writers, n \in user.cfg.sizes :
      /\ CanCall /\ Mounted
      /\ user.wname[d] # NONAME
      /\ IF Blocked THEN Stuck("write")
         ELSE
           \E res \in {flogfs_write(Machine(-1), d,
                          Bytes(user.wname[d],
                                user.files[user.wname[d]].len, n), n)} :
           LET name == user.wname[d]
               fl   == user.files[name]
               good == ~res.m.h.hung /\ ~res.failed
           IN Install(res.m,
                [user EXCEPT
                   !.files[name] =
                      [fl EXCEPT
                         !.st = IF good /\ res.count = n THEN @ ELSE "other",
                         !.len = @ + n,
                         !.nw = MIN(@ + 1, 2)],
                   !.last = [NoLast EXCEPT
                               !.op = "write", !.d = d, !.name = name,
                               !.n = n, !.ret = res.count, !.ok = good,
                               !.before = w[d].write_head,
                               !.after = res.m.w[d].write_head]])

\* Reading through the null pointer has no defined outcome: the call
\* returns failure or the process stops.
CloseWrite ==
    \E d \in user.cfg.writers, stops \in BOOLEAN :
      /\ CanCall /\ Mounted
      /\ user.cfg.strict => user.wname[d] # NONAME
      /\ IF Blocked THEN ~stops /\ Stuck("close_write")
         ELSE
           \E res \in {flogfs_close_write(Machine(-1), d)} :
           LET name == user.wname[d]
               m2   == IF ~res.fault THEN res.m
                       ELSE IF stops THEN Hang(res.m)
                       ELSE flog_unlock_fs(flash_unlock(res.m))
               u1   == [user EXCEPT
                          !.wname[d] = NONAME,
                          !.last = [NoLast EXCEPT
                                      !.op = "close_write", !.d = d,
                                      !.name = name, !.ok = res.ok,
                                      !.list = WriteList]]
           IN /\ stops => res.fault
              /\ Install(m2,
                   IF name = NONAME THEN u1
                   ELSE [u1 EXCEPT !.files[name].st =
                           IF @ = "open" /\ ~m2.h.hung THEN "closed"
                           ELSE "other"])

OpenRead ==
    \E d \in user.cfg.readers, name \in user.cfg.names :
      /\ CanCall /\ Mounted
      /\ user.rname[d] = NONAME
      /\ IF Blocked THEN Stuck("open_read")
         ELSE
           \E res \in {flogfs_open_read(Machine(-1), d, name)} :
              Install(res.m,
                [user EXCEPT
                   !.rname[d] = IF res.ok THEN name ELSE NONAME,
                   !.rat[d] = user.files[name].st,
                   !.last = [NoLast EXCEPT !.op = "open_read", !.d = d,
                                           !.name = name, !.ok = res.ok]])

\* last.at: the file's record when this descriptor was opened, for the
\* first read through it.
Read ==
    \E d \in user.cfg.readers, n \in user.cfg.reads :
      /\ CanCall /\ Mounted
      /\ user.rname[d] # NONAME
      /\ IF Blocked THEN Stuck("read")
         ELSE
           \E res \in {flogfs_read([Machine(-1) EXCEPT !.h.raw = FALSE],
                                   d, n)} :
              Install(res.m,
                [user EXCEPT
                   !.rat[d] = "read",
                   !.last = [NoLast EXCEPT
                               !.op = "read", !.d = d,
                               !.name = user.rname[d], !.n = n,
                               !.ret = Len(res.out), !.out = res.out,
                               !.ok = ~res.m.h.hung,
                               !.at = user.rat[d]]])

CloseRead ==
    \E d \in user.cfg.readers, stops \in BOOLEAN :
      /\ CanCall /\ Mounted
      /\ user.cfg.strict => user.rname[d] # NONAME
      /\ IF fs.lock THEN ~stops /\ Stuck("close_read")
         ELSE
           \E res \in {flogfs_close_read(Machine(-1), d)} :
           LET m2  == IF ~res.fault THEN res.m
                      ELSE IF stops THEN Hang(res.m)
                      ELSE flog_unlock_fs(res.m)
           IN /\ stops => res.fault
              /\ Install(m2,
                   [user EXCEPT
                      !.rname[d] = NONAME,
                      !.last = [NoLast EXCEPT
                                  !.op = "close_read", !.d = d,
                                  !.name = user.rname[d], !.ok = res.ok,
                                  !.list = ReadList]])

Rm ==
    \E name \in user.cfg.names :
      /\ CanCall /\ Mounted
      /\ \A d \in Writers : user.wname[d] # name
      /\ \A d \in Readers : user.rname[d] # name
      /\ IF Blocked THEN Stuck("rm")
         ELSE
           \E res \in {flogfs_rm(Machine(-1), name)} :
              Install(res.m,
                [user EXCEPT
                   !.files[name] = IF res.ok THEN NoFile ELSE @,
                   !.last = [NoLast EXCEPT !.op = "rm", !.name = name,
                                           !.ok = res.ok]])

(***************************************************************************)
(* What a caller can observe of a mounted file system: the names ls        *)
(* lists, the bytes read from each, and the free blocks.                   *)
(***************************************************************************)
\* The longest read a caller asks for.
MaxRead == 24

\* The most programming calls served before power is lost inside a call.
MaxFuel == 8

\* The caller lists until ls returns 0, MaxNames names at most.
MaxNames == 6

\* s: m, it, names, done.
ListStep(ss) ==
    Bind(ss, LAMBDA s :
      IF s.done THEN s
      ELSE Bind(flogfs_ls_iterate(s), LAMBDA e :
             IF e.name = NONAME \/ e.m.h.hung
             THEN [s EXCEPT !.m = e.m, !.done = TRUE]
             ELSE [s EXCEPT !.m = e.m, !.it = e.it,
                            !.names = Append(@, e.name)]))

\* The state after k passes (k >= 1).
RECURSIVE ListLoop(_, _)
ListLoop(s0, k) ==
    IF k = 1 THEN ListStep(s0)
    ELSE Bind(ListLoop(s0, k \div 2), LAMBDA s1 :
           IF s1.done THEN s1 ELSE ListLoop(s1, k - (k \div 2)))

Listing(m) ==
    Bind(flogfs_start_ls(m), LAMBDA i :
      ListLoop([m |-> i.m, it |-> i.it, names |-> <<>>, done |-> FALSE],
               MaxNames).names)

Contents(m, name) ==
    Bind(flogfs_open_read([m EXCEPT !.fs.read_head = NULL], "r1", name),
         LAMBDA o : IF ~o.ok THEN <<>>
                    ELSE flogfs_read(o.m, "r1", MaxRead).out)

FreeBlocks(flash) ==
    {b \in Blocks :
        \/ flash[b][0].type_id = FLOG_BLOCK_TYPE_UNALLOCATED
        \/ flash[b][FLOG_FILE_INVALIDATION_SECTOR].a # FLOG_TIMESTAMP_INVALID}

Observe(mm) ==
    Bind(mm, LAMBDA m : Bind(Listing(m), LAMBDA ls :
      [names |-> ls,
       data  |-> [f \in Names |->
                    IF \E i \in 1 .. Len(ls) : ls[i] = f
                    THEN Contents(m, f) ELSE <<>>],
       free  |-> FreeBlocks(m.nand)]))

\* What is observed once power has returned and the flash is mounted.
Recovered(m) ==
    Bind(flogfs_mount(Reboot(m)), LAMBDA mt :
      IF mt.ok THEN Observe(mt.m) ELSE [names |-> <<"!">>])

\* The mutating calls, as one operator: kind is "create", "write",
\* "close_write" or "rm".
Mutate(m, kind, d, name, n) ==
    IF kind = "create" THEN flogfs_open_write(m, d, name, 0).m
    ELSE IF kind = "write"
    THEN flogfs_write(m, d, Bytes(name, user.files[name].len, n), n).m
    ELSE IF kind = "close_write" THEN flogfs_close_write(m, d).m
    ELSE flogfs_rm(m, name).m

\* Power is lost inside a mutating call, after `fuel` programming calls of
\* the driver.  crash keeps what recovery shows then (got), what it shows
\* when power is lost before the call (pre) and after it (post), and what
\* is observed without a loss of power before the call (was) and after it
\* (done).
PowerLoss ==
    \E kind \in user.cfg.crash, d \in user.cfg.writers,
       name \in user.cfg.names, n \in user.cfg.sizes,
       fuel \in 0 .. MaxFuel :
      /\ CanCall /\ Mounted /\ ~Blocked
      /\ kind = "create" =>
           /\ user.wname[d] = NONAME
           /\ flog_find_file(Machine(-1), name).first_block
                = FLOG_BLOCK_IDX_INVALID
      /\ kind \in {"write", "close_write"} => user.wname[d] = name
      /\ kind \in {"create", "close_write", "rm"} => n = 1
      /\ kind = "rm" =>
           /\ d = "w1"
           /\ \A e \in Writers : user.wname[e] # name
           /\ \A e \in Readers : user.rname[e] # name
           /\ flog_find_file(Machine(-1), name).first_block
                # FLOG_BLOCK_IDX_INVALID
      /\ \E cut \in {Mutate(Machine(fuel), kind, d, name, n)},
            full \in {Mutate(Machine(-1), kind, d, name, n)} :
            /\ cut.fuel = 0
            /\ ~full.h.hung
            /\ Install(Reboot(cut),
                 [user EXCEPT
                    !.wname = [e \in Writers |-> NONAME],
                    !.rname = [e \in Readers |-> NONAME],
                    !.files = [f \in Names |->
                                 IF @[f].st = "none" /\ f # name THEN @[f]
                                 ELSE [@[f] EXCEPT !.st = "other"]],
                    !.last = [NoLast EXCEPT !.op = "power_loss"],
                    !.crash = [op   |-> kind,
                               name |-> name,
                               fuel |-> fuel,
                               was  |-> Observe(Machine(-1)),
                               done |-> Observe(full),
                               pre  |-> Recovered(Machine(-1)),
                               post |-> Recovered(full),
                               got  |-> Recovered(cut)]])

(***************************************************************************)
(* Specifications                                                          *)
(***************************************************************************)
\* A chip as it leaves the factory (erased), the process started and
\* flogfs_init done; the driver is of either kind.
Blank(kind) ==
    Reboot([nand |-> [b \in Blocks |-> ErasedBlock], dev |-> NoDevice,
            fs |-> ZeroFs, w |-> [d \in Writers |-> ZeroWrite],
            r |-> [d \in Readers |-> ZeroRead], h |-> ZeroHist,
            drv |-> [kind |-> kind, bad |-> {}], fuel |-> -1])

Start(m, u) ==
    /\ nand = m.nand
    /\ dev = m.dev
    /\ fs = m.fs
    /\ w = m.w
    /\ r = m.r
    /\ hist = m.h
    /\ drv = m.drv
    /\ user = u

\* A formatted and mounted chip.
Ready(kind) == flogfs_mount(flogfs_format(Blank(kind))).m

\* The calls of the general caller.
MaxCalls == 7

Init ==
    \E kind \in {"staged", "through"} :
      Start(Blank(kind),
            FreshUser([writers |-> {"w1"}, readers |-> {"r1"},
                       names |-> {"a"}, sizes |-> {1, 3},
                       reads |-> {MaxRead}, crash |-> {"write"},
                       strict |-> FALSE],
                      MaxCalls))

Next ==
    \/ Format
    \/ Mount
    \/ PowerCycle
    \/ OpenWrite
    \/ Write
    \/ CloseWrite
    \/ OpenRead
    \/ Read
    \/ CloseRead
    \/ Rm
    \/ PowerLoss

Spec == Init /\ [][Next]_vars

\* A caller that creates, writes, closes and removes one file on a mounted
\* chip and loses power inside any of these calls.
CrashCalls == 4

InitCrash ==
    \E kind \in {"staged", "through"} :
      Start(Ready(kind),
            FreshUser([writers |-> {"w1"}, readers |-> {"r1"},
                       names |-> {"a"}, sizes |-> {3, 6},
                       reads |-> {MaxRead},
                       crash |-> {"create", "write", "close_write", "rm"},
                       strict |-> FALSE],
                      CrashCalls))

NextCrash ==
    \/ Mount
    \/ OpenWrite
    \/ Write
    \/ CloseWrite
    \/ Rm
    \/ PowerLoss

SpecCrash == InitCrash /\ [][NextCrash]_vars

\* The bytes a file block holds: write calls of this size go from one block
\* boundary to the next.
BlockBytes ==
    (FS_SECTORS_PER_BLOCK - 1) * FS_SECTOR_SIZE
       - SIZEOF_SECTOR0_HEADER - SIZEOF_TAIL_HEADER

\* A caller that creates, fills and removes files on a mounted chip, so
\* that blocks are used again.
ChainCalls == 7

InitChain ==
    \E kind \in {"staged", "through"} :
      Start(Ready(kind),
            FreshUser([writers |-> {"w1"}, readers |-> {"r1"},
                       names |-> {"a"}, sizes |-> {BlockBytes},
                       reads |-> {MaxRead}, crash |-> {},
                       strict |-> FALSE],
                      ChainCalls))

NextChain ==
    \/ OpenWrite
    \/ Write
    \/ CloseWrite
    \/ Rm

SpecChain == InitChain /\ [][NextChain]_vars

\* A caller that creates, writes, closes and removes one file, and whose
\* power is cycled between two calls.
RebootCalls == 6

InitReboot ==
    \E kind \in {"staged", "through"} :
      Start(Ready(kind),
            FreshUser([writers |-> {"w1"}, readers |-> {"r1"},
                       names |-> {"a"}, sizes |-> {1, 3},
                       reads |-> {MaxRead}, crash |-> {},
                       strict |-> FALSE],
                      RebootCalls))

NextReboot ==
    \/ Mount
    \/ PowerCycle
    \/ OpenWrite
    \/ Write
    \/ CloseWrite
    \/ Rm

SpecReboot == InitReboot /\ [][NextReboot]_vars

\* A caller with two write descriptors, two read descriptors and two
\* files on a mounted chip.
ListCalls == 5

InitLists ==
    \E kind \in {"staged", "through"} :
      Start(Ready(kind),
            FreshUser([writers |-> {"w1", "w2"}, readers |-> {"r1", "r2"},
                       names |-> {"a", "b"}, sizes |-> {1},
                       reads |-> {MaxRead}, crash |-> {},
                       strict |-> FALSE],
                      ListCalls))

NextLists ==
    \/ OpenWrite
    \/ Write
    \/ CloseWrite
    \/ OpenRead
    \/ Read
    \/ CloseRead

SpecLists == InitLists /\ [][NextLists]_vars

\* A mounted chip on which the files a and b have been created and are
\* open for writing, a first.
Opened(kind) ==
    flogfs_open_write(flogfs_open_write(Ready(kind), "w1", "a", 0).m,
                      "w2", "b", 0).m

\* A caller that has opened a and b, writes them, closes what it has
\* opened, and reads the files back.
PairCalls == 6

InitPair ==
    \E kind \in {"staged", "through"} :
      Start(Opened(kind),
            [FreshUser([writers |-> {"w1", "w2"}, readers |-> {"r1"},
                        names |-> {"a", "b"}, sizes |-> {1},
                        reads |-> {MaxRead}, crash |-> {},
                        strict |-> TRUE],
                       PairCalls)
               EXCEPT !.wname = [d \in Writers |->
                                   IF d = "w1" THEN "a" ELSE "b"],
                      !.files = [f \in Names |->
                                   [st |-> "open", len |-> 0, nw |-> 0,
                                    shared |-> TRUE]]])

SpecPair == InitPair /\ [][NextLists]_vars

(***************************************************************************)
(* Properties                                                              *)
(***************************************************************************)
\* The last call was the first read through a descriptor opened on a file
\* that was created, written by `writes` successful write calls and closed,
\* and it asked for more bytes than were written.
ReadBack(name) ==
    /\ user.last.op = "read"
    /\ user.last.name = name
    /\ user.last.at = "closed"
    /\ user.files[name].st = "closed"
    /\ user.last.n > user.files[name].len

\* C1: round trip.  A file created by open_write, written by one write call
\* with the bytes B and closed, then opened and read until a short read,
\* gives back exactly the bytes of B.
C1_RoundTrip ==
    \A name \in Names :
       ReadBack(name) /\ user.files[name].nw = 1
          => /\ user.last.ok
             /\ user.last.out = Bytes(name, 0, user.files[name].len)

\* C2: crash atomicity.  After power is lost inside a mutating call and the
\* flash is mounted again, what is observed (names, bytes of each file, free
\* blocks) is what is observed before the call or after the completed call.
C2_CrashAtomic ==
    user.crash.op # "none"
       => user.crash.got \in {user.crash.pre, user.crash.post,
                              user.crash.was, user.crash.done}

\* The inode entries of the flash: the allocation records and, next to
\* each, the invalidation record.
InodeEntries ==
    {e \in Blocks \X Sectors :
        /\ nand[e[1]][0].type_id = FLOG_BLOCK_TYPE_INODE
        /\ e[2] >= FS_SECTORS_PER_PAGE
        /\ (e[2] - FS_SECTORS_PER_PAGE) % 2 = 0
        /\ nand[e[1]][e[2]].a # FLOG_FILE_ID_INVALID}

\* The first blocks of the live files.
LiveFirstBlocks ==
    {Blk(nand[e[1]][e[2]].b) :
        e \in {x \in InodeEntries :
                  nand[x[1]][x[2] + 1].a = FLOG_TIMESTAMP_INVALID}}

\* The chain from block b ends at an unsealed block without coming to a
\* block of `seen`.
RECURSIVE ChainEnds(_, _)
ChainEnds(b, seen) ==
    /\ b \in Blocks
    /\ b \notin seen
    /\ \/ nand[b][FLOG_FILE_TAIL_SECTOR].c = FLOG_TIMESTAMP_INVALID
       \/ ChainEnds(Blk(nand[b][FLOG_FILE_TAIL_SECTOR].a), seen \cup {b})

\* C3: chain integrity.  For every live file the walk of the tail
\* next_block pointers from its first block reaches an unsealed block and
\* visits no block twice, in every state between two calls.
C3_ChainIntegrity ==
    ~hist.hung => \A b \in LiveFirstBlocks : ChainEnds(b, {})

\* C4: free-block accounting.  While the file system is mounted, the stored
\* num_free_blocks is the number of blocks of the flash that are
\* unallocated or carry a programmed invalidation sector.
C4_FreeBlockAccounting ==
    Mounted /\ ~hist.hung
       => fs.num_free_blocks = Cardinality(FreeBlocks(nand))

\* C5: monotonic timestamps.  Every timestamp programmed to flash is
\* greater than every timestamp programmed before it (since the format).
C5_MonotonicTimestamps == hist.ts_mono

\* C6: age monotonicity.  Every age written into the sector-0 header of a
\* block is greater than the age written there before (since the format).
C6_AgeMonotonic == hist.age_mono

\* C7: the result of write.  A write call that returns gives back no more
\* than n; when no allocation fails it gives back n and write_head has
\* advanced by n.
C7_WriteCount ==
    user.last.op = "write" /\ ~hist.hung
       => /\ user.last.ret <= user.last.n
          /\ user.last.ok
                => /\ user.last.ret = user.last.n
                   /\ user.last.after = user.last.before + user.last.n

\* C8: reads see committed sectors only.  A read call copies no byte from a
\* sector whose spare nbytes is unwritten, and a read of a file that was
\* created and not written gives back fewer bytes than asked for.
C8_ReadCommitted ==
    user.last.op = "read" /\ ~hist.hung
       => /\ ~hist.raw
          /\ user.last.at = "open" /\ user.files[user.last.name].nw = 0
                => user.last.ret < user.last.n

\* The result `l` of a close call against the open list after it.
CloseOutcome(l, now) ==
    IF \E i \in 1 .. Len(l.list) : l.list[i] = l.d
    THEN l.ok /\ now = SelectSeq(l.list, LAMBDA x : x # l.d)
    ELSE ~l.ok /\ now = l.list

\* C9: close.  Closing a descriptor of the open list succeeds and removes
\* that descriptor and no other; closing another one fails and leaves the
\* list as it is.
C9_CloseRemoves ==
    ~hist.hung
       => /\ user.last.op = "close_read" => CloseOutcome(user.last, ReadList)
          /\ user.last.op = "close_write"
                => CloseOutcome(user.last, WriteList)

\* C10: close_write flushes.  When two files were open for writing at the
\* same time, each was written less than a sector and both are closed, the
\* bytes read from either hold every byte written to it.
C10_CloseFlushes ==
    \A name \in Names :
       /\ ReadBack(name)
       /\ \A f \in Names :
             /\ user.files[f].st = "closed"
             /\ user.files[f].shared
             /\ user.files[f].nw = 1
             /\ user.files[f].len < FS_SECTOR_SIZE - SIZEOF_SECTOR0_HEADER
       => \A i \in 1 .. user.files[name].len :
             \E j \in 1 .. Len(user.last.out) :
                user.last.out[j] = Payload(name, i)

(***************************************************************************)
(* Deletion                                                                *)
(***************************************************************************)
\* ls yields `name` on machine m.
Listed(m, name) ==
    Bind(Listing(m), LAMBDA ls : \E i \in 1 .. Len(ls) : ls[i] = name)

\* C11: a file that rm has removed with success (and that has not been
\* created again) stays removed: ls does not yield it and open_read of it
\* fails, in the session of the rm and after power cycles and mounts.
C11_RmDurable ==
    Mounted /\ ~hist.hung /\ ~Blocked =>
      \A name \in Names :
         user.files[name].st = "none" =>
            /\ ~Listed(Machine(-1), name)
            /\ ~flogfs_open_read(Machine(-1), "r1", name).ok

(***************************************************************************)
(* File ids                                                                *)
(***************************************************************************)
\* A caller that creates, closes and removes two files through one
\* descriptor, and whose power is cycled between two calls.
IdCalls == 9

InitIds ==
    \E kind \in {"staged", "through"} :
      Start(Ready(kind),
            FreshUser([writers |-> {"w1"}, readers |-> {"r1"},
                       names |-> {"a", "b"}, sizes |-> {1},
                       reads |-> {MaxRead}, crash |-> {},
                       strict |-> TRUE],
                      IdCalls))

NextIds ==
    \/ Mount
    \/ PowerCycle
    \/ OpenWrite
    \/ CloseWrite
    \/ Rm

SpecIds == InitIds /\ [][NextIds]_vars

\* The allocation records of the flash: the sectors of the entry pages of
\* inode blocks that carry a file name.
AllocationRecords ==
    {e \in Blocks \X Sectors :
        /\ nand[e[1]][0].type_id = FLOG_BLOCK_TYPE_INODE
        /\ e[2] >= FS_SECTORS_PER_PAGE
        /\ nand[e[1]][e[2]].name # NONAME}

\* The file_id of the allocation record at e.
EntryId(e) == nand[e[1]][e[2]].a

\* C12: file ids are issued in increasing order.  No two inode allocation
\* records carry the same file_id, also after rm and after a remount.
C12_FileIdsIncrease ==
    ~hist.hung =>
      \A e1 \in AllocationRecords, e2 \in AllocationRecords :
         e1 # e2 => EntryId(e1) # EntryId(e2)

(***************************************************************************)
(* Listing                                                                 *)
(***************************************************************************)
\* The files the caller has created and not removed.
LiveNames == {f \in Names : user.files[f].st # "none"}

\* ls, iterated to its end, yields the names of the files created and not
\* removed, each once, and no other name.
ListsLiveFiles ==
    Bind(Listing(Machine(-1)), LAMBDA ls :
       /\ {ls[i] : i \in 1 .. Len(ls)} = LiveNames
       /\ Len(ls) = Cardinality(LiveNames))

\* C13: listing.  After any sequence of creations and removals, a mount
\* that takes the file system from RESET to MOUNTED leaves it such that ls
\* yields exactly the names of the live files, each once.
C13_ListsLiveFiles ==
    [][~Mounted /\ Mounted' /\ ~hist'.hung => ListsLiveFiles']_vars

(***************************************************************************)
(* Mount                                                                   *)
(***************************************************************************)
\* C14: idempotent mount.  A mount called while the state is MOUNTED
\* returns success, leaves the flogfs structure (t, max_file_id,
\* num_free_blocks, inode0, the open lists, the dirty block, the allocator
\* cursor, the locks), the descriptors and the flash as they were.
C14_IdempotentMount ==
    [][Mounted /\ user'.last.op = "mount" /\ ~hist'.hung
          => /\ user'.last.ok
             /\ fs' = fs
             /\ nand' = nand
             /\ w' = w
             /\ r' = r]_vars

(***************************************************************************)
(* Append                                                                  *)
(***************************************************************************)
\* C15: open_write of an existing file appends.  When a file that was
\* created, written and closed is opened for writing again, the
\* descriptor's write_head is the number of payload bytes written to the
\* file before.
C15_ReopenAppends ==
    [][\A name \in Names :
          /\ user.files[name].st = "closed"
          /\ user'.last.op = "open_write"
          /\ user'.last.name = name
          /\ user'.last.ok
          => w'[user'.last.d].write_head = user.files[name].len]_vars

(***************************************************************************)
(* Allocation exhaustion                                                   *)
(***************************************************************************)
\* The last call was a write that returned after a commit failed.
WriteFailed ==
    user.last.op = "write" /\ ~user.last.ok /\ ~hist.hung

\* C16: allocation exhaustion during write.  When write cannot allocate a
\* successor for the tail commit, the block is not sealed (its tail sector
\* is not programmed), the descriptor stands on that tail sector, and the
\* call returns the number of bytes it accepted before the failure (the
\* advance of write_head), never more than asked for.
C16_WriteExhausted ==
    WriteFailed =>
       LET f == w[user.last.d]
       IN /\ f.sector = FLOG_FILE_TAIL_SECTOR
          /\ nand[f.block][FLOG_FILE_TAIL_SECTOR].c = FLOG_TIMESTAMP_INVALID
          /\ user.last.ret = user.last.after - user.last.before
          /\ user.last.ret <= user.last.n

(***************************************************************************)
(* The dirty block                                                         *)
(***************************************************************************)
\* The inode entries of the live files.
LiveEntries ==
    {e \in InodeEntries :
        nand[e[1]][e[2] + 1].a = FLOG_TIMESTAMP_INVALID}

\* The block of the chain of file `id` from block b on that has been handed
\* out (named by the inode entry or by a sealed tail) and whose sector-0
\* header is still erased, if there is one.
RECURSIVE ChainPending(_, _, _)
ChainPending(b, id, seen) ==
    IF b \notin Blocks \/ b \in seen THEN {}
    ELSE IF nand[b][0].a = ErasedSector.a /\ nand[b][0].b = ErasedSector.b
         THEN {b}
    ELSE IF nand[b][FLOG_FILE_TAIL_SECTOR].c = FLOG_TIMESTAMP_INVALID THEN {}
    ELSE ChainPending(Blk(nand[b][FLOG_FILE_TAIL_SECTOR].a), id,
                      seen \cup {b})

\* The blocks handed out to live files without a sector-0 header.
PendingBlocks ==
    UNION {ChainPending(Blk(nand[e[1]][e[2]].b), EntryId(e), {}) :
              e \in LiveEntries}

\* C18: at most one dirty block.  While the file system is mounted, at most
\* one block has been handed out without its sector-0 header programmed,
\* and such a block is the one dirty_block.block names, dirty_block.file
\* being a descriptor of the open-write list that is positioned on it.
C18_OneDirtyBlock ==
    Mounted /\ ~hist.hung =>
       /\ Cardinality(PendingBlocks) <= 1
       /\ \A b \in PendingBlocks :
             /\ fs.dirty_block.block = b
             /\ fs.dirty_block.file \in Writers
             /\ w[fs.dirty_block.file].block = b
             /\ \E i \in 1 .. Len(WriteList) :
                   WriteList[i] = fs.dirty_block.file

(***************************************************************************)
(* Invalidation stamps on live chains                                      *)
(***************************************************************************)
\* The blocks of the chain that starts at block b, followed through the
\* next_block of every sealed tail up to the unsealed block.
RECURSIVE ChainBlocks(_, _)
ChainBlocks(b, seen) ==
    IF b \notin Blocks \/ b \in seen THEN seen
    ELSE IF nand[b][FLOG_FILE_TAIL_SECTOR].c = FLOG_TIMESTAMP_INVALID
         THEN seen \cup {b}
    ELSE ChainBlocks(Blk(nand[b][FLOG_FILE_TAIL_SECTOR].a), seen \cup {b})

\* The blocks on the chains of the live files.
LiveChainBlocks ==
    UNION {ChainBlocks(Blk(nand[e[1]][e[2]].b), {}) : e \in LiveEntries}

\* C19: live chains carry no invalidation.  No block on the chain of a live
\* file, from the first_block of its inode entry through the tail
\* next_block pointers up to the unsealed block, has a programmed
\* invalidation sector.
C19_LiveChainsClean ==
    ~hist.hung =>
       \A b \in LiveChainBlocks :
          nand[b][FLOG_FILE_INVALIDATION_SECTOR].a = FLOG_TIMESTAMP_INVALID

(***************************************************************************)
(* Mounting chips of any content                                           *)
(***************************************************************************)
\* The calls of the caller that mounts.
MountCalls == 4

\* Sector-0 type_id values that are none of the three block types.
ForeignTypes == {0}

\* The chip after power-up: blank or formatted, with the blocks of `bad`
\* marked bad, and the sector-0 type_id of block b (if it is a block)
\* holding the value ty.
Chip(kind, bad, formatted, b, ty) ==
    Bind([Blank(kind) EXCEPT !.drv.bad = bad], LAMBDA m0 :
    Bind(IF formatted THEN Reboot(flogfs_format(m0)) ELSE m0, LAMBDA m1 :
      IF b \in Blocks THEN [m1 EXCEPT !.nand[b][0].type_id = ty] ELSE m1))

InitMount ==
    \E kind \in {"staged", "through"}, bad \in {{}, {0}},
       formatted \in BOOLEAN,
       b \in Blocks \cup {FLOG_BLOCK_IDX_INVALID}, ty \in ForeignTypes :
      Start(Chip(kind, bad, formatted, b, ty),
            FreshUser([writers |-> {"w1"}, readers |-> {"r1"},
                       names |-> {"a"}, sizes |-> {1},
                       reads |-> {MaxRead}, crash |-> {},
                       strict |-> TRUE],
                      MountCalls))

NextMount ==
    \/ Format
    \/ Mount
    \/ PowerCycle
    \/ OpenWrite
    \/ CloseWrite
    \/ Rm

SpecMount == InitMount /\ [][NextMount]_vars

\* Some block that is not bad has a sector-0 type_id that is none of
\* INODE, FILE and UNALLOCATED.
ForeignBlock ==
    \E b \in Blocks \ drv.bad :
       nand[b][0].type_id \notin {FLOG_BLOCK_TYPE_INODE, FLOG_BLOCK_TYPE_FILE,
                                  FLOG_BLOCK_TYPE_UNALLOCATED}

\* The live INODE blocks with inode_index 0.
LiveInode0 ==
    {b \in Blocks \ drv.bad :
        /\ nand[b][0].type_id = FLOG_BLOCK_TYPE_INODE
        /\ nand[b][0].idx = 0
        /\ nand[b][FLOG_INODE_INVALIDATION_SECTOR].a = FLOG_TIMESTAMP_INVALID}

\* C17: a mount of a file system in RESET state whose flash has a block
\* that is not bad with a sector-0 type_id other than INODE, FILE and
\* UNALLOCATED, or has no live INODE block with inode_index 0, returns
\* failure, leaves the state RESET and has released both locks.
C17_MountRejects ==
    [][/\ ~Mounted /\ ~Blocked /\ ~hist.hung
       /\ user'.last.op = "mount"
       /\ (ForeignBlock \/ LiveInode0 = {})
       => /\ ~user'.last.ok
          /\ fs'.state = FLOG_STATE_RESET
          /\ ~fs'.lock /\ ~fs'.flash_lock
          /\ ~hist'.hung]_vars

\* A mount has just been refused over a block of foreign type.
C17_Witness ==
    /\ user.last.op = "mount" /\ ~user.last.ok
    /\ ForeignBlock /\ LiveInode0 # {}
    /\ fs.state = FLOG_STATE_RESET /\ ~Blocked

\* C20: a mount that takes the file system from RESET to MOUNTED leaves in
\* flogfs.inode0, where find_file and ls start their walk, the index of the
\* one live INODE block with inode_index 0.
C20_Inode0Found ==
    [][/\ ~Mounted /\ Mounted'
       /\ user'.last.op = "mount" /\ ~hist'.hung
       => LiveInode0' = {fs'.inode0}]_vars

(***************************************************************************)
(* Two tasks.  A task can be preempted between any two statements; the     *)
(* steps below cut the operations at the points where a lock is taken,     *)
(* and the operations that take no lock between their call and their       *)
(* body.                                                                   *)
(***************************************************************************)
\* The steps of the two tasks.
TaskCalls == 6

At(t, pc) == user.tasks[t].pc = pc

TaskInstall(m, t, task, last) ==
    Install(m, [user EXCEPT !.tasks[t] = task, !.last = last])

\* flogfs_format, first statement: the driver's lock.
FormatTakeFlash(t) ==
    /\ CanCall /\ At(t, "idle") /\ ~fs.flash_lock
    /\ TaskInstall(flash_lock(Machine(-1)), t,
          [IdleTask EXCEPT !.pc = "format_has_flash", !.holds = {"flash"}],
          user.last)

\* flogfs_format, second statement: the FS lock.
FormatTakeFs(t) ==
    /\ CanCall /\ At(t, "format_has_flash") /\ ~fs.lock
    /\ TaskInstall(flog_lock_fs(Machine(-1)), t,
          [IdleTask EXCEPT !.pc = "format_locked",
                           !.holds = {"flash", "fs"}],
          user.last)

\* flogfs_format from there to its return.
FormatRun(t) ==
    /\ CanCall /\ At(t, "format_locked")
    /\ TaskInstall(flogfs_format(Machine(-1)), t, IdleTask,
          [NoLast EXCEPT !.op = "format"])

\* flogfs_mount up to flog_lock_fs: num_free_blocks is zeroed, then the FS
\* lock is taken.
MountTakeFs(t) ==
    /\ CanCall /\ At(t, "idle") /\ ~fs.lock
    /\ TaskInstall(flog_lock_fs([Machine(-1) EXCEPT
                                   !.fs.num_free_blocks = 0]), t,
          [IdleTask EXCEPT !.pc = "mount_has_fs", !.holds = {"fs"}],
          user.last)

\* flogfs_mount from there: the return of a mounted file system, or the
\* driver's lock.
MountTakeFlash(t) ==
    /\ CanCall /\ At(t, "mount_has_fs")
    /\ IF Mounted
       THEN \E res \in {flogfs_mount(Machine(-1))} :
              TaskInstall(res.m, t, IdleTask,
                 [NoLast EXCEPT !.op = "mount", !.ok = res.ok])
       ELSE /\ ~fs.flash_lock
            /\ TaskInstall(flash_lock(Machine(-1)), t,
                  [IdleTask EXCEPT !.pc = "mount_locked",
                                   !.holds = {"fs", "flash"}],
                  user.last)

\* flogfs_mount from there to its return.
MountRun(t) ==
    /\ CanCall /\ At(t, "mount_locked")
    /\ \E res \in {flogfs_mount(Machine(-1))} :
         TaskInstall(res.m, t, IdleTask,
            [NoLast EXCEPT !.op = "mount", !.ok = res.ok])

\* flogfs_start_ls, and the call of flogfs_ls_iterate.
LsCall(t) ==
    /\ CanCall /\ At(t, "idle")
    /\ \E res \in {flogfs_start_ls(Machine(-1))} :
         TaskInstall(res.m, t,
            [IdleTask EXCEPT !.pc = "ls_iterate", !.it = <<res.it>>],
            user.last)

\* flogfs_ls_iterate from its first statement to its return.
LsRun(t) ==
    /\ CanCall /\ At(t, "ls_iterate")
    /\ \E res \in {flogfs_ls_iterate([m |-> Machine(-1),
                                      it |-> user.tasks[t].it[1]])} :
         TaskInstall(res.m, t, IdleTask,
            [NoLast EXCEPT !.op = "ls", !.name = res.name])

InitTasks ==
    \E kind \in {"staged", "through"}, mounted \in BOOLEAN :
      Start(IF mounted THEN Ready(kind) ELSE Blank(kind),
            FreshUser([writers |-> {"w1"}, readers |-> {"r1"},
                       names |-> {"a"}, sizes |-> {1},
                       reads |-> {MaxRead}, crash |-> {},
                       strict |-> TRUE],
                      TaskCalls))

NextTasks ==
    \E t \in Tasks :
       \/ FormatTakeFlash(t)
       \/ FormatTakeFs(t)
       \/ FormatRun(t)
       \/ MountTakeFs(t)
       \/ MountTakeFlash(t)
       \/ MountRun(t)
       \/ LsCall(t)
       \/ LsRun(t)

SpecTasks == InitTasks /\ [][NextTasks]_vars

\* The task is inside a public operation, at a point where the operation
\* reads or changes the shared state or the flash cache.
Inside(t) ==
    user.tasks[t].pc \in {"format_locked", "mount_has_fs", "mount_locked",
                          "ls_iterate"}

\* C21: a task that is inside a public operation holds the FS lock, and no
\* two tasks are inside public operations at the same time.
C21_FsLockHeld ==
    /\ \A t \in Tasks : Inside(t) => "fs" \in user.tasks[t].holds
    /\ \A t1 \in Tasks, t2 \in Tasks :
          Inside(t1) /\ Inside(t2) => t1 = t2

\* The lock the task waits for, if it waits.
WaitsFor(t) ==
    IF At(t, "format_has_flash") /\ fs.lock THEN {"fs"}
    ELSE IF At(t, "mount_has_fs") /\ ~Mounted /\ fs.flash_lock THEN {"flash"}
    ELSE {}

\* Two tasks wait for a lock the other one holds.
Deadlocked ==
    \E t1 \in Tasks, t2 \in Tasks :
       /\ t1 # t2
       /\ WaitsFor(t1) \cap user.tasks[t2].holds # {}
       /\ WaitsFor(t2) \cap user.tasks[t1].holds # {}

\* C22: lock order.  A task that holds the flash driver's lock holds the FS
\* lock, which it took first, and two tasks never wait for each other's
\* lock.
C22_LockOrder ==
    /\ \A t \in Tasks :
          "flash" \in user.tasks[t].holds => "fs" \in user.tasks[t].holds
    /\ ~Deadlocked

(***************************************************************************)
(* The hand-over of the dirty block                                        *)
(***************************************************************************)
\* A mounted chip on which "a" was created through w1 and one byte was
\* written to it, which is still in the descriptor's buffer.
Written(kind) ==
    flogfs_write(flogfs_open_write(Ready(kind), "w1", "a", 0).m, "w1",
                 Bytes("a", 0, 1), 1).m

\* A caller that has written "a" and goes on to create a second file,
\* close files and read them.
HandCalls == 5

InitHand ==
    \E kind \in {"staged", "through"} :
      Start(Written(kind),
            [FreshUser([writers |-> {"w1", "w2"}, readers |-> {"r1"},
                        names |-> {"a", "b"}, sizes |-> {1},
                        reads |-> {MaxRead}, crash |-> {},
                        strict |-> TRUE],
                       HandCalls)
               EXCEPT !.wname["w1"] = "a",
                      !.files["a"] = [st |-> "open", len |-> 1, nw |-> 1,
                                      shared |-> FALSE]])

NextHand ==
    \/ OpenWrite
    \/ CloseWrite
    \/ OpenRead
    \/ Read

SpecHand == InitHand /\ [][NextHand]_vars

\* This step is a creation, by a descriptor other than dirty_block.file, made
\* while the dirty block is the one the open descriptor dirty_block.file
\* stands on.
HandOverStep ==
    /\ fs.dirty_block.block \in Blocks
    /\ fs.dirty_block.file \in Writers
    /\ user.wname[fs.dirty_block.file] # NONAME
    /\ w[fs.dirty_block.file].block = fs.dirty_block.block
    /\ w[fs.dirty_block.file].sector = 0
    /\ user'.last.op = "open_write" /\ user'.last.ok
    /\ user'.last.d # fs.dirty_block.file
    /\ user.files[user'.last.name].st = "none"
    /\ ~hist'.hung

\* Sector 0 of the dirty block holds the header and the buffered bytes of
\* dirty_block.file, that descriptor has left sector 0, and the dirty block
\* is the new file's.
HandedOver ==
    LET A   == fs.dirty_block.file
        blk == fs.dirty_block.block
    IN /\ nand'[blk][0].a = w[A].block_age
       /\ nand'[blk][0].b = w[A].id
       /\ \A i \in SIZEOF_SECTOR0_HEADER .. w[A].offset - 1 :
             nand'[blk][0].data[i] = w[A].buf[i]
       /\ w'[A].block = blk /\ w'[A].sector > 0
       /\ fs'.dirty_block = [block |-> w'[user'.last.d].block,
                             file |-> user'.last.d]

\* The file read was written once while its block was the dirty block;
\* then another file was created, which is still open, and the file was
\* closed.
ReadAfterHandOver(name) ==
    /\ ReadBack(name)
    /\ ~hist.hung
    /\ user.files[name].shared
    /\ user.files[name].nw = 1
    /\ \E f \in Names \ {name} : user.files[f].st = "open"

\* C23: dirty-block hand-over.  A creation made while the dirty block
\* belongs to another open descriptor programs that descriptor's sector-0
\* header and buffered bytes, moves it past sector 0 and makes the new
\* file's block the dirty block; the bytes buffered before the hand-over
\* are read back once that file is closed.
C23_HandOver ==
    /\ [][HandOverStep => HandedOver]_vars
    /\ [](\A name \in Names :
             ReadAfterHandOver(name)
                => /\ user.last.ok
                   /\ user.last.out = Bytes(name, 0, user.files[name].len))

(***************************************************************************)
(* The timestamp counter after a mount                                     *)
(***************************************************************************)
\* The timestamps programmed on flash: in the allocation and invalidation
\* records of the inode entries, in the tail headers and in the
\* invalidation sectors of the file blocks.
FlashTimestamps ==
    ({nand[e[1]][e[2]].d : e \in InodeEntries}
        \cup {nand[e[1]][e[2] + 1].a : e \in InodeEntries}
        \cup {nand[b][FLOG_FILE_TAIL_SECTOR].c :
                 b \in {x \in Blocks :
                          nand[x][0].type_id = FLOG_BLOCK_TYPE_FILE}}
        \cup {nand[b][FLOG_FILE_INVALIDATION_SECTOR].a :
                 b \in {x \in Blocks :
                          nand[x][0].type_id = FLOG_BLOCK_TYPE_FILE}})
       \ {FLOG_TIMESTAMP_INVALID}

\* C24: mount restores the timestamp counter.  After a mount that takes
\* the file system from RESET to MOUNTED, t is at least every timestamp
\* programmed on flash.
C24_MountRestoresT ==
    [][/\ ~Mounted /\ Mounted'
       /\ user'.last.op = "mount" /\ ~hist'.hung
       => \A ts \in FlashTimestamps' : fs'.t >= ts]_vars

(***************************************************************************)
(* The order of programming and erasing                                    *)
(***************************************************************************)
\* A mounted chip whose free blocks all hold what a removed file left:
\* "a" was created, written over three blocks, closed and removed.
Used(kind) ==
    Bind(flogfs_open_write(Ready(kind), "w1", "a", 0).m, LAMBDA m1 :
    Bind(flogfs_write(m1, "w1", Bytes("a", 0, BlockBytes), BlockBytes).m,
         LAMBDA m2 :
    Bind(flogfs_write(m2, "w1", Bytes("a", BlockBytes, BlockBytes),
                      BlockBytes).m, LAMBDA m3 :
      flogfs_rm(flogfs_close_write(m3, "w1").m, "a").m)))

\* A caller that creates, closes and removes files on such a chip and
\* loses power inside a creation or a removal.
EraseCalls == 4

InitErase ==
    \E kind \in {"staged", "through"} :
      \E m \in {Used(kind)} :
        Start(m,
              FreshUser([writers |-> {"w1"}, readers |-> {"r1"},
                         names |-> {"a", "b"}, sizes |-> {1},
                         reads |-> {MaxRead}, crash |-> {"create", "rm"},
                         strict |-> TRUE],
                        EraseCalls))

NextErase ==
    \/ Mount
    \/ OpenWrite
    \/ CloseWrite
    \/ Rm
    \/ PowerLoss

SpecErase == InitErase /\ [][NextErase]_vars

\* The allocation records on flash that name block b as first block.
RecordsNaming(flash, b) ==
    {e \in Blocks \X Sectors :
        /\ flash[e[1]][0].type_id = FLOG_BLOCK_TYPE_INODE
        /\ e[2] >= FS_SECTORS_PER_PAGE
        /\ flash[e[1]][e[2]].name # NONAME
        /\ Blk(flash[e[1]][e[2]].b) = b}

\* This step is a creation that returned, through descriptor d.
Created(d) ==
    /\ user'.last.op = "open_write" /\ user'.last.ok /\ user'.last.d = d
    /\ flog_find_file(Machine(-1), user'.last.name).first_block
         = FLOG_BLOCK_IDX_INVALID
    /\ ~hist'.hung

\* C27: write before erase.  When power is lost inside the creation of a
\* file, a block that the creation erased is named by an allocation record
\* that the creation programmed; when the creation returns, its first
\* block is erased and named by such a record.
C27_WriteBeforeErase ==
    [][/\ (user'.last.op = "power_loss" /\ user'.crash.op = "create"
             => \A b \in Blocks :
                   nand[b] # ErasedBlock /\ nand'[b] = ErasedBlock
                      => RecordsNaming(nand', b) \ RecordsNaming(nand, b)
                            # {})
       /\ \A d \in Writers :
             Created(d)
                => /\ nand'[w'[d].block] = ErasedBlock
                   /\ RecordsNaming(nand', w'[d].block)
                         \ RecordsNaming(nand, w'[d].block) # {}]_vars

\* Power was lost inside a creation after it had erased a block that held
\* data.
C27_Witness ==
    /\ user.last.op = "power_loss" /\ user.crash.op = "create"
    /\ \E b \in Blocks \ {0} :
          /\ nand[b] = ErasedBlock
          /\ RecordsNaming(nand, b) # {}

\* The blocks whose invalidation sector is programmed in this step.
NewlyInvalidated ==
    {b \in Blocks :
        /\ nand[b][0].type_id = FLOG_BLOCK_TYPE_FILE
        /\ nand[b][FLOG_FILE_INVALIDATION_SECTOR].a = FLOG_TIMESTAMP_INVALID
        /\ nand'[b][FLOG_FILE_INVALIDATION_SECTOR].a
              # FLOG_TIMESTAMP_INVALID}

\* The inode entries whose invalidation record is programmed in this step.
NewlyRemoved ==
    {e \in InodeEntries :
        /\ nand[e[1]][e[2] + 1].a = FLOG_TIMESTAMP_INVALID
        /\ nand'[e[1]][e[2] + 1].a # FLOG_TIMESTAMP_INVALID}

\* C28: the order in rm.  When power is lost inside rm and the invalidation
\* sector of a block of the file's chain has been programmed, the
\* invalidation record of the file's inode entry is on flash.
C28_RmOrder ==
    [][/\ user'.last.op = "power_loss" /\ user'.crash.op = "rm"
       /\ NewlyInvalidated # {}
       => NewlyRemoved # {}]_vars

(***************************************************************************)
(* Recovery at mount                                                       *)
(***************************************************************************)
\* The allocations of the live file of inode entry e: its allocation record
\* and the tails of the sealed blocks of its chain, each with the block it
\* names, the file, the age and the timestamp.
AnnouncedOf(e) ==
    {[block |-> Blk(nand[e[1]][e[2]].b), file_id |-> nand[e[1]][e[2]].a,
      age |-> nand[e[1]][e[2]].c, timestamp |-> nand[e[1]][e[2]].d]}
      \cup
    {[block |-> Blk(nand[b][FLOG_FILE_TAIL_SECTOR].a),
      file_id |-> nand[b][0].b,
      age |-> nand[b][FLOG_FILE_TAIL_SECTOR].b,
      timestamp |-> nand[b][FLOG_FILE_TAIL_SECTOR].c] :
        b \in {x \in ChainBlocks(Blk(nand[e[1]][e[2]].b), {}) :
                 /\ nand[x][0].type_id = FLOG_BLOCK_TYPE_FILE
                 /\ nand[x][FLOG_FILE_TAIL_SECTOR].c
                       # FLOG_TIMESTAMP_INVALID}}

\* The allocations on flash.
Announced == UNION {AnnouncedOf(e) : e \in LiveEntries}

\* The allocations of the file the interrupted call worked on whose block
\* has no header of the file yet.
Unfinished ==
    {p \in UNION {AnnouncedOf(e) :
                    e \in {x \in LiveEntries :
                             nand[x[1]][x[2]].name = user.crash.name}} :
        p.block \in Blocks /\ nand[p.block][0].b # p.file_id}

\* The allocations with the largest timestamp.
Newest ==
    {p \in Announced : \A q \in Announced : q.timestamp <= p.timestamp}

\* The blocks a step changes outside their invalidation sector.
Touched ==
    {b \in Blocks :
        \E s \in Sectors \ {FLOG_FILE_INVALIDATION_SECTOR} :
           nand'[b][s] # nand[b][s]}

\* The mount that follows a loss of power inside a creation, a write or a
\* close.
MountAfterCrash ==
    /\ user.last.op = "power_loss"
    /\ user.crash.op \in {"create", "write", "close_write"}
    /\ user'.last.op = "mount" /\ user'.last.ok /\ ~hist'.hung

\* C25: the allocation fix-up.  At the mount after a loss of power that
\* left an allocation whose block has no header of the file, the block is
\* erased and gets a header with the file's id and the recorded age, spare
\* type FILE and nbytes 0, and stays on the file's chain; the mount changes
\* no block but the one of the allocation with the largest timestamp, and
\* not that one when its header carries the file's id.
C25_AllocationFixup ==
    [][MountAfterCrash =>
         /\ \A p \in Unfinished :
               /\ nand'[p.block][0].b = p.file_id
               /\ nand'[p.block][0].a = p.age
               /\ nand'[p.block][0].type_id = FLOG_BLOCK_TYPE_FILE
               /\ nand'[p.block][0].nbytes = 0
         /\ \A b \in Touched :
               \E p \in Newest \cap Unfinished : p.block = b]_vars

\* A mounted chip with one file: "a" was created, written over three
\* blocks and closed.
Filled(kind) ==
    Bind(flogfs_open_write(Ready(kind), "w1", "a", 0).m, LAMBDA m1 :
    Bind(flogfs_write(m1, "w1", Bytes("a", 0, BlockBytes), BlockBytes).m,
         LAMBDA m2 :
    Bind(flogfs_write(m2, "w1", Bytes("a", BlockBytes, BlockBytes),
                      BlockBytes).m, LAMBDA m3 :
      flogfs_close_write(m3, "w1").m)))

\* A caller that removes, creates and closes files on such a chip and loses
\* power inside a removal.
RemoveCalls == 4

InitRemove ==
    \E kind \in {"staged", "through"} :
      \E m \in {Filled(kind)} :
        Start(m,
              [FreshUser([writers |-> {"w1"}, readers |-> {"r1"},
                          names |-> {"a", "b"}, sizes |-> {1},
                          reads |-> {MaxRead}, crash |-> {"rm"},
                          strict |-> TRUE],
                         RemoveCalls)
                 EXCEPT !.files["a"] = [st |-> "closed",
                                        len |-> 2 * BlockBytes, nw |-> 2,
                                        shared |-> FALSE]])

NextRemove ==
    \/ Mount
    \/ OpenWrite
    \/ CloseWrite
    \/ Rm
    \/ PowerLoss

SpecRemove == InitRemove /\ [][NextRemove]_vars

\* The inode entries of the file the interrupted removal worked on whose
\* invalidation record is programmed.
Interrupted ==
    {e \in InodeEntries \ LiveEntries :
        nand[e[1]][e[2]].name = user.crash.name}

\* The mount that follows a loss of power inside a removal which had
\* programmed the invalidation record of the inode entry.
MountAfterRm ==
    /\ user.last.op = "power_loss" /\ user.crash.op = "rm"
    /\ Interrupted # {}
    /\ user'.last.op = "mount" /\ user'.last.ok /\ ~hist'.hung

NextAllocation ==
    flog_allocate_block(flog_flush_dirty_block(flog_lock_allocate(
                                                   Machine(-1))))

\* The blocks that are erased or invalidated and on no chain of a live
\* file.
Unclaimed == FreeBlocks(nand) \ LiveChainBlocks

\* C29: the allocator returns a free block or the invalid sentinel.  A
\* block it returns is on no chain of a live file, is no inode block and is
\* not the dirty block, and it returns the sentinel exactly when no block is
\* free.
C29_AllocatorFree ==
    Mounted /\ ~hist.hung /\ ~fs.lock /\ ~fs.flash_lock =>
       \A al \in {NextAllocation} :
          ~al.m.h.hung =>
            /\ al.block # FLOG_BLOCK_IDX_INVALID =>
                 /\ al.block \notin LiveChainBlocks
                 /\ nand[al.block][0].type_id # FLOG_BLOCK_TYPE_INODE
                 /\ al.block # al.m.fs.dirty_block.block
            /\ al.block = FLOG_BLOCK_IDX_INVALID <=> Unclaimed = {}

(***************************************************************************)
(* The inode chain                                                         *)
(***************************************************************************)
\* The allocation records this step programs into the last entry pair of
\* an inode block.
LastPairFilled ==
    {e \in Blocks \X {FS_SECTORS_PER_BLOCK - 2} :
        /\ nand[e[1]][0].type_id = FLOG_BLOCK_TYPE_INODE
        /\ nand[e[1]][e[2]].a = FLOG_FILE_ID_INVALID
        /\ nand'[e[1]][e[2]].a # FLOG_FILE_ID_INVALID}

\* C30: the inode chain is extended.  A creation that takes the last entry
\* pair of an inode block leaves the tail of that block programmed with a
\* next block, and that block erased but for a sector-0 header of type
\* INODE whose index is one higher.
C30_InodeChainExtends ==
    [][user'.last.op = "open_write" /\ user'.last.ok /\ ~hist'.hung =>
         \A e \in LastPairFilled :
            /\ nand'[e[1]][FLOG_INODE_TAIL_SECTOR].c # FLOG_TIMESTAMP_INVALID
            /\ Blk(nand'[e[1]][FLOG_INODE_TAIL_SECTOR].a) \in Blocks
            /\ \A n \in {Blk(nand'[e[1]][FLOG_INODE_TAIL_SECTOR].a)} \cap Blocks :
                  /\ nand'[n][0].type_id = FLOG_BLOCK_TYPE_INODE
                  /\ nand'[n][0].idx = nand[e[1]][0].idx + 1]_vars

(***************************************************************************)
(* The preallocation list                                                  *)
(***************************************************************************)
\* The calls made on the list, and the ages pushed.
PreallocCalls == 4
MaxAge == 3

\* flog_prealloc_push and flog_prealloc_pop are applied to the list of a
\* started process, which is empty.
InitPrealloc ==
    \E kind \in {"staged", "through"} :
      Start(Blank(kind),
            FreshUser([writers |-> {"w1"}, readers |-> {"r1"},
                       names |-> {"a"}, sizes |-> {1}, reads |-> {MaxRead},
                       crash |-> {}, strict |-> TRUE],
                      PreallocCalls))

PreallocPush ==
    \E block \in Blocks, age \in 0 .. MaxAge :
      /\ CanCall
      /\ Install(flog_prealloc_push(Machine(-1), block, age),
           [user EXCEPT !.last = [NoLast EXCEPT !.op = "push", !.n = age,
                                                !.ret = block]])

PreallocPop ==
    /\ CanCall
    /\ \E res \in {flog_prealloc_pop(Machine(-1))} :
         Install(res.m,
           [user EXCEPT !.last = [NoLast EXCEPT !.op = "pop",
                                     !.ok = res.block # FLOG_BLOCK_IDX_INVALID,
                                     !.n = res.age, !.ret = res.block]])

NextPrealloc == PreallocPush \/ PreallocPop

SpecPrealloc == InitPrealloc /\ [][NextPrealloc]_vars

\* The list is sorted ascending by age.
PreallocSorted(list) ==
    \A i \in 1 .. Len(list) - 1 : list[i].age <= list[i + 1].age

\* What a push of e makes of a sorted list: e is put behind the entries
\* that are not older, and of a list that was full the oldest entry goes.
PushedInto(list, e) ==
    LET k   == Cardinality({i \in 1 .. Len(list) : list[i].age <= e.age})
        all == SubSeq(list, 1, k) \o <<e>> \o SubSeq(list, k + 1, Len(list))
    IN IF Len(list) < FS_PREALLOCATE_SIZE THEN all
       ELSE IF e.age >= list[Len(list)].age THEN list
       ELSE SubSeq(all, 1, FS_PREALLOCATE_SIZE)

\* C31: the preallocation list.  Starting from the empty list it holds at
\* most FS_PREALLOCATE_SIZE entries sorted ascending by age; a push into a
\* list that is not full inserts the entry, a push into a full list drops
\* the new entry when it is not younger than the oldest and otherwise puts
\* it in place of the oldest; pop removes and returns the first entry, the
\* youngest.
C31_PreallocList ==
    /\ [](Len(fs.prealloc) <= FS_PREALLOCATE_SIZE /\ PreallocSorted(fs.prealloc))
    /\ [][/\ user'.last.op = "push" =>
               \E e \in {[block |-> user'.last.ret, age |-> user'.last.n]} :
                  /\ Len(fs.prealloc) < FS_PREALLOCATE_SIZE =>
                        /\ Len(fs'.prealloc) = Len(fs.prealloc) + 1
                        /\ \E i \in 1 .. Len(fs'.prealloc) : fs'.prealloc[i] = e
                  /\ {fs'.prealloc[i].age : i \in 1 .. Len(fs'.prealloc)}
                        = {PushedInto(fs.prealloc, e)[i].age :
                              i \in 1 .. Len(PushedInto(fs.prealloc, e))}
          /\ user'.last.op = "pop" /\ fs.prealloc # <<>> =>
               /\ user'.last.ok
               /\ user'.last.ret = fs.prealloc[1].block
               /\ \A i \in 1 .. Len(fs.prealloc) :
                     user'.last.n <= fs.prealloc[i].age
               /\ fs'.prealloc = Tail(fs.prealloc)]_vars

(***************************************************************************)
(* The order of the sectors of a file block                                *)
(***************************************************************************)
\* A caller that writes one file by sectors and by blocks and reads it by
\* sectors.
OrderCalls == 6

InitOrder ==
    \E kind \in {"staged", "through"} :
      Start(Ready(kind),
            FreshUser([writers |-> {"w1"}, readers |-> {"r1"},
                       names |-> {"a"}, sizes |-> {FS_SECTOR_SIZE, BlockBytes},
                       reads |-> {FS_SECTOR_SIZE, MaxRead}, crash |-> {},
                       strict |-> TRUE],
                      OrderCalls))

NextOrder ==
    \/ OpenWrite
    \/ Write
    \/ CloseWrite
    \/ OpenRead
    \/ Read
    \/ CloseRead

SpecOrder == InitOrder /\ [][NextOrder]_vars

\* The sectors flog_increment_sector yields from sector s on, k of them.
RECURSIVE Orbit(_, _)
Orbit(s, k) ==
    IF k = 0 THEN <<>> ELSE <<s>> \o Orbit(flog_increment_sector(s), k - 1)

\* The first FS_SECTORS_PER_BLOCK - 1 sectors from sector 0 on.
SectorOrder == Orbit(0, FS_SECTORS_PER_BLOCK - 1)

\* The place of sector s in that order; 0 for a sector that is not in it.
Pos(s) ==
    IF \E i \in 1 .. Len(SectorOrder) : SectorOrder[i] = s
    THEN CHOOSE i \in 1 .. Len(SectorOrder) : SectorOrder[i] = s
    ELSE 0

\* C32: the order of the sectors.  From sector 0 flog_increment_sector
\* yields every sector of the block but the invalidation sector once: 0 up
\* to the sector before the tail, then the sectors of the later pages, and
\* the tail sector last.  A writer and a reader never stand on the
\* invalidation sector, and within a block a write or a read moves them
\* forward in this order only.
C32_SectorOrder ==
    /\ [](/\ {SectorOrder[i] : i \in 1 .. Len(SectorOrder)}
               = Sectors \ {FLOG_FILE_INVALIDATION_SECTOR}
          /\ \A i \in 1 .. Len(SectorOrder) - 1 :
                SectorOrder[i + 1] =
                   IF i < FLOG_FILE_TAIL_SECTOR THEN i
                   ELSE IF i < FS_SECTORS_PER_BLOCK - 2
                   THEN FS_SECTORS_PER_PAGE + i - FLOG_FILE_TAIL_SECTOR
                   ELSE FLOG_FILE_TAIL_SECTOR
          /\ SectorOrder[1] = 0
          /\ SectorOrder[Len(SectorOrder)] = FLOG_FILE_TAIL_SECTOR
          /\ \A d \in Writers : Pos(w[d].sector) # 0
          /\ \A d \in Readers : Pos(r[d].sector) # 0)
    /\ [][/\ \A d \in Writers :
               user'.last.op = "write" /\ w'[d].block = w[d].block
                  => Pos(w'[d].sector) >= Pos(w[d].sector)
          /\ \A d \in Readers :
               user'.last.op = "read" /\ r'[d].block = r[d].block
                  => Pos(r'[d].sector) >= Pos(r[d].sector)]_vars

\* A reader has read a sealed block through to its tail sector.
C32_Witness ==
    /\ user.last.op = "read" /\ user.last.ok
    /\ \E d \in Readers :
          /\ r[d].sector = FLOG_FILE_TAIL_SECTOR
          /\ nand[r[d].block][FLOG_FILE_TAIL_SECTOR].c # FLOG_TIMESTAMP_INVALID

(***************************************************************************)
(* The flash cache shim                                                    *)
(***************************************************************************)
\* C33: the cache shim elides redundant opens only.  Whenever page_open is
\* set, the block and page it records are those of the page most recently
\* loaded into the device, so that an open it skips is an open of the page
\* the device holds.
C33_CacheTracksDevice ==
    ~hist.hung /\ fs.cache.page_open =>
       /\ fs.cache.current_open_block = dev.b
       /\ fs.cache.current_open_page = dev.p

(***************************************************************************)
(* Locks after a call                                                      *)
(***************************************************************************)
\* C34: every operation releases its locks.  Once a call has returned,
\* with success or with failure, the FS lock, the flash lock and the
\* allocation lock are free.
C34_LocksReleased ==
    ~hist.hung =>
       /\ ~fs.lock
       /\ ~fs.flash_lock
       /\ fs.allocate_lock = 0

(***************************************************************************)
(* The allocation lock is taken once at a time                             *)
(***************************************************************************)
\* C35: no operation calls flog_lock_allocate while allocate_lock is already
\* held; an allocation made while a dirty block is pending flushes that
\* block without taking the lock a second time.
C35_NoRelock ==
    ~hist.relock

(***************************************************************************)
(* Directory walks                                                         *)
(***************************************************************************)
\* The sectors of an INODE block that hold allocation records: every other
\* sector from the first sector of the second page.
AllocationSectors ==
    {s \in Sectors : s >= FS_SECTORS_PER_PAGE
                     /\ (s - FS_SECTORS_PER_PAGE) % 2 = 0}

\* The sectors the loop of flog_find_file reads as entries, from state s,
\* in k passes at most.
RECURSIVE FindReads(_, _, _)
FindReads(s, filename, k) ==
    IF k = 0 \/ s.done THEN {}
    ELSE {s.it.sector} \cup FindReads(FindStep(s, filename), filename, k - 1)

FindWalk(filename) ==
    Bind(flog_inode_iterator_init(Machine(-1), fs.inode0), LAMBDA i :
      FindReads([m |-> i.m, it |-> i.it, done |-> FALSE,
                 first_block |-> FLOG_BLOCK_IDX_INVALID,
                 file_id |-> FLOG_FILE_ID_INVALID], filename, WalkLimit))

\* The sectors a listing reads as entries: the caller calls
\* flogfs_ls_iterate again after every name, k passes of its loop at most.
RECURSIVE LsReads(_, _)
LsReads(s, k) ==
    IF k = 0 THEN {}
    ELSE Bind(LsStep([s EXCEPT !.done = FALSE, !.name = NONAME]), LAMBDA n :
           {s.it.sector} \cup
             (IF n.done /\ n.name = NONAME THEN {} ELSE LsReads(n, k - 1)))

LsWalk ==
    Bind(flogfs_start_ls(Machine(-1)), LAMBDA i :
      LsReads([m |-> i.m, it |-> i.it, name |-> NONAME, done |-> FALSE],
              WalkLimit))

\* The listing ends: flogfs_ls_iterate returns 0 within MaxNames names.
LsEnds ==
    Bind(flogfs_start_ls(Machine(-1)), LAMBDA i :
    Bind(ListLoop([m |-> i.m, it |-> i.it, names |-> <<>>, done |-> FALSE],
                  MaxNames), LAMBDA s :
      s.done /\ ~s.m.h.hung))

\* The second pass of flogfs_mount over the directory as it stands: s is
\* the state of MountInodeStep.
MountWalkStart ==
    Bind(flog_inode_iterator_init(Machine(-1), fs.inode0), LAMBDA i :
      [m |-> i.m, it |-> i.it,
       acc |-> [la |-> NoAllocation, ld |-> NoDeletion,
                inode0 |-> fs.inode0, ok |-> TRUE],
       done |-> FALSE])

\* The sectors that pass reads as entries, k passes at most.
RECURSIVE MountReads(_, _)
MountReads(s, k) ==
    IF k = 0 \/ s.done THEN {}
    ELSE {s.it.sector} \cup MountReads(MountInodeStep(s), k - 1)

\* C36: directory walks end and read allocation records only: on a
\* mounted file system the second pass of a mount ends, flog_find_file
\* returns for every name and a listing returns 0 after finitely many
\* names; and the sectors these walks read as entries are allocation-record sectors, never invalidation
\* sectors, also when every entry pair of the INODE block is used and the
\* block has no successor.
C36_WalksEnd ==
    Mounted /\ ~hist.hung =>
          /\ MountInodes(MountWalkStart, WalkLimit).done
          /\ MountReads(MountWalkStart, WalkLimit) \subseteq AllocationSectors
          /\ \A name \in Names :
                /\ ~flog_find_file(Machine(-1), name).hung
                /\ FindWalk(name) \subseteq AllocationSectors
          /\ LsEnds
          /\ LsWalk \subseteq AllocationSectors

=============================================================================
